---- MODULE Spec2Model ----
(***************************************************************************)
(* The generic binary heap (package heap) and the priority queue built on  *)
(* it (package priorityqueue) of haru-256/ctci-6th-edition.                *)
(*                                                                         *)
(* The heap's backing slice items []*T is a sequence of addresses into     *)
(* mem, the store of the objects the pointers refer to: a Task is mutated  *)
(* in place through its pointer by PriorityQueue.Update.  Slot indices are *)
(* 0-based as in the source; slot i of a sequence s is s[i+1].             *)
(***************************************************************************)
EXTENDS Integers, Sequences, FiniteSets, TLC

\* ------------------------------------------------------------ bounds
MaxVal == 3
MaxInserts == 4
MaxPrio == 3
NumPayloads == 3
MaxTasks == 3

Values == 1..MaxVal
Priorities == 1..MaxPrio
Payloads == 1..NumPayloads

\* the nil pointer; addresses are 1..Len(mem)
Nil == 0

VARIABLES
    items,      \* Heap.items: the backing slice, a sequence of addresses
    mem,        \* the objects the pointers refer to (ints, or Tasks)
    cmpFn,      \* Heap.cmpFn: "maxCmp", "minCmp" or "PriorityCmp"
    now,        \* the last reading of time.Now(), 0 before the first
    last,       \* the last call that returned: its name and results
    nInsert,    \* number of Insert calls that returned
    nPopOk,     \* number of Pop calls that returned without error
    drained,    \* the addresses returned by the Pops since the last Insert or Update
    batch,      \* the addresses the heap held after the last Insert or Update
    panicked,   \* a call panicked (index out of range)
    mu,         \* Heap.mu: the writer holding the lock (0: none) and the readers
    pc,         \* where each goroutine is in the call it is running ("idle": in none)
    loc,        \* the local variables of each goroutine's call
    calls,      \* number of calls started by the goroutines
    snap,       \* the slice a caller holds that GetItems returned
    queue,      \* a Queue: items, size, head, tail
    stack,      \* a Stack: items, size, top
    hist        \* what the caller of the Queue or Stack has put in and taken out

vars == <<items, mem, cmpFn, now, last, nInsert, nPopOk, drained, batch, panicked,
          mu, pc, loc, calls, snap, queue, stack, hist>>

\* the Queue, the Stack and their caller's record
boxVars == <<queue, stack, hist>>

\* the state of the goroutines
thrVars == <<mu, pc, loc, calls>>

\* ------------------------------------------------------------ goroutines
NumThreads == 2

Threads == 1..NumThreads

\* sync.RWMutex, unlocked
NoLock == [writer |-> 0, readers |-> {}]

\* the locals of a goroutine that is in no call
NoLoc ==
    [op |-> "none", ptr |-> Nil, item |-> 0, priority |-> 0, index |-> 0,
     heapSize |-> 0, copy |-> <<>>, targetTask |-> Nil, targetIdx |-> 0,
     toLargerThan |-> FALSE, toLessThan |-> FALSE, old |-> 0, err |-> "nil", top |-> Nil,
     size |-> 0]

\* no slice: the caller holds none.  A slice is the array it refers to: one of
\* its own (alias FALSE, of elements elems), or the array of h.items
NoSlice == [held |-> FALSE, alias |-> FALSE, elems |-> <<>>]

\* ------------------------------------------------------------ comparators
maxCmp(a, b) == IF a > b THEN 1 ELSE IF a < b THEN -1 ELSE 0

minCmp(a, b) == IF a < b THEN 1 ELSE IF a > b THEN -1 ELSE 0

\* PriorityCmp with the tie-break reversed: the later task first
PriorityCmpLaterFirst(a, b) ==
    IF a.Priority < b.Priority THEN -1
    ELSE IF a.Priority > b.Priority THEN 1
    ELSE IF a.Time < b.Time THEN -1
    ELSE IF a.Time > b.Time THEN 1
    ELSE 0

\* PriorityCmp without the tie-break: equal priorities compare equal
PriorityCmpNoTieBreak(a, b) ==
    IF a.Priority < b.Priority THEN -1
    ELSE IF a.Priority > b.Priority THEN 1
    ELSE 0

PriorityCmp(a, b) ==
    IF a.Priority < b.Priority THEN -1
    ELSE IF a.Priority > b.Priority THEN 1
    ELSE IF a.Time < b.Time THEN 1
    ELSE IF a.Time > b.Time THEN -1
    ELSE 0

\* the documented comparator for min-heap behaviour: lower numbers first
minHeapCmp(a, b) ==
    IF a.Priority > b.Priority THEN -1
    ELSE IF a.Priority < b.Priority THEN 1
    ELSE IF a.Time < b.Time THEN 1
    ELSE IF a.Time > b.Time THEN -1
    ELSE 0

\* h.cmpFn(p, q) for two pointers p, q into the store m
Cmp(m, p, q) ==
    CASE cmpFn = "maxCmp" -> maxCmp(m[p], m[q])
      [] cmpFn = "minCmp" -> minCmp(m[p], m[q])
      [] cmpFn = "PriorityCmp" -> PriorityCmp(m[p], m[q])
      [] cmpFn = "minHeapCmp" -> minHeapCmp(m[p], m[q])

\* ------------------------------------------------------------ index arithmetic
\* Go's integer division truncates toward zero
GoDiv(a, b) == IF a >= 0 THEN a \div b ELSE -((-a) \div b)

Left(i) == 2 * i + 1

Right(i) == 2 * (i + 1)

\* Parent without the subtraction: i / 2
ParentHalf(i) == GoDiv(i, 2)

Parent(i) == GoDiv(i - 1, 2)

InRange(its, i) == 0 <= i /\ i < Len(its)

\* swap with one assignment only: its[i] = its[j]
swapOneWay(its, i, j) == [its EXCEPT ![i + 1] = its[j + 1]]

swap(its, i, j) == [its EXCEPT ![i + 1] = its[j + 1], ![j + 1] = its[i + 1]]

\* ------------------------------------------------------------ sift loops
\* the result of a loop iteration: the slice, the index to continue from,
\* whether the loop ended, whether an index expression was out of range
Step(its, index, done, panic) ==
    [items |-> its, index |-> index, done |-> done, panic |-> panic]

\* an iteration of upHeap that ends the loop after its swap
upHeapIterOneSwap(m, its, index) ==
    LET parentIndex == Parent(index) IN
    IF index = 0 THEN Step(its, index, TRUE, FALSE)
    ELSE IF ~InRange(its, parentIndex) \/ ~InRange(its, index)
         THEN Step(its, index, TRUE, TRUE)
    ELSE IF Cmp(m, its[parentIndex + 1], its[index + 1]) >= 0
         THEN Step(its, index, TRUE, FALSE)
    ELSE Step(swap(its, parentIndex, index), parentIndex, TRUE, FALSE)

\* one iteration of the loop of upHeap
upHeapIter(m, its, index) ==
    LET parentIndex == Parent(index) IN
    IF index = 0 THEN Step(its, index, TRUE, FALSE)
    ELSE IF ~InRange(its, parentIndex) \/ ~InRange(its, index)
         THEN Step(its, index, TRUE, TRUE)
    ELSE IF Cmp(m, its[parentIndex + 1], its[index + 1]) >= 0
         THEN Step(its, index, TRUE, FALSE)
    ELSE Step(swap(its, parentIndex, index), parentIndex, FALSE, FALSE)

RECURSIVE upHeap(_, _, _)
upHeap(m, its, index) ==
    LET r == upHeapIter(m, its, index) IN
    IF r.done THEN r ELSE upHeap(m, r.items, r.index)

\* downHeapIter with the right child never compared
downHeapIterLeftOnly(m, its, index, heapSize) ==
    LET l == Left(index)
        panicL == l < heapSize /\ (~InRange(its, l) \/ ~InRange(its, index))
        largest == IF l < heapSize /\ ~panicL /\ Cmp(m, its[l + 1], its[index + 1]) > 0
                   THEN l ELSE index
    IN  IF panicL THEN Step(its, index, TRUE, TRUE)
        ELSE IF largest = index THEN Step(its, index, TRUE, FALSE)
        ELSE Step(swap(its, index, largest), largest, FALSE, FALSE)

\* downHeapIter with the children tested against heapSize by <=
downHeapIterOffByOne(m, its, index, heapSize) ==
    LET l == Left(index)
        r == Right(index)
        panicL == l <= heapSize /\ (~InRange(its, l) \/ ~InRange(its, index))
        largest1 == IF l <= heapSize /\ ~panicL /\ Cmp(m, its[l + 1], its[index + 1]) > 0
                    THEN l ELSE index
        panicR == r <= heapSize /\ (~InRange(its, r) \/ ~InRange(its, largest1))
        largest == IF r <= heapSize /\ ~panicR /\ Cmp(m, its[r + 1], its[largest1 + 1]) > 0
                   THEN r ELSE largest1
    IN  IF panicL \/ panicR THEN Step(its, index, TRUE, TRUE)
        ELSE IF largest = index THEN Step(its, index, TRUE, FALSE)
        ELSE Step(swap(its, index, largest), largest, FALSE, FALSE)

\* downHeapIter with the right child bounded by the length, not by heapSize
downHeapIterRightUnbounded(m, its, index, heapSize) ==
    LET l == Left(index)
        r == Right(index)
        panicL == l < heapSize /\ (~InRange(its, l) \/ ~InRange(its, index))
        largest1 == IF l < heapSize /\ ~panicL /\ Cmp(m, its[l + 1], its[index + 1]) > 0
                    THEN l ELSE index
        panicR == FALSE
        largest == IF r < Len(its) /\ InRange(its, largest1)
                      /\ Cmp(m, its[r + 1], its[largest1 + 1]) > 0
                   THEN r ELSE largest1
    IN  IF panicL \/ panicR THEN Step(its, index, TRUE, TRUE)
        ELSE IF largest = index THEN Step(its, index, TRUE, FALSE)
        ELSE Step(swap(its, index, largest), largest, FALSE, FALSE)

\* one iteration of the loop of downHeapWithSize
downHeapIter(m, its, index, heapSize) ==
    LET l == Left(index)
        r == Right(index)
        panicL == l < heapSize /\ (~InRange(its, l) \/ ~InRange(its, index))
        largest1 == IF l < heapSize /\ ~panicL /\ Cmp(m, its[l + 1], its[index + 1]) > 0
                    THEN l ELSE index
        panicR == r < heapSize /\ (~InRange(its, r) \/ ~InRange(its, largest1))
        largest == IF r < heapSize /\ ~panicR /\ Cmp(m, its[r + 1], its[largest1 + 1]) > 0
                   THEN r ELSE largest1
    IN  IF panicL \/ panicR THEN Step(its, index, TRUE, TRUE)
        ELSE IF largest = index THEN Step(its, index, TRUE, FALSE)
        ELSE Step(swap(its, index, largest), largest, FALSE, FALSE)

RECURSIVE downHeapWithSize(_, _, _, _)
downHeapWithSize(m, its, index, heapSize) ==
    LET r == downHeapIter(m, its, index, heapSize) IN
    IF r.done THEN r ELSE downHeapWithSize(m, r.items, r.index, heapSize)

downHeap(m, its, index) == downHeapWithSize(m, its, index, Len(its))

\* the slots one iteration of downHeapWithSize's loop reads or writes: the
\* operands of the two comparisons and of the swap
downHeapIterSlots(m, its, index, heapSize) ==
    LET l == Left(index)
        r == Right(index)
        largest1 == IF l < heapSize /\ InRange(its, l) /\ InRange(its, index)
                       /\ Cmp(m, its[l + 1], its[index + 1]) > 0
                    THEN l ELSE index
        largest == IF r < heapSize /\ InRange(its, r) /\ InRange(its, largest1)
                      /\ Cmp(m, its[r + 1], its[largest1 + 1]) > 0
                   THEN r ELSE largest1
    IN  (IF l < heapSize THEN {l, index} ELSE {})
        \cup (IF r < heapSize THEN {r, largest1} ELSE {})
        \cup (IF largest # index THEN {index, largest} ELSE {})

\* the slots a call of downHeapWithSize reads or writes; downHeapSlotsNext goes
\* on after the iteration r that touched the slots s
RECURSIVE downHeapSlots(_, _, _, _)
downHeapSlotsNext(m, r, s, heapSize) ==
    IF r.done THEN s ELSE s \cup downHeapSlots(m, r.items, r.index, heapSize)

downHeapSlots(m, its, index, heapSize) ==
    downHeapSlotsNext(m, downHeapIter(m, its, index, heapSize),
                      downHeapIterSlots(m, its, index, heapSize), heapSize)

\* ------------------------------------------------------------ results
Ret(op, err, item, n) ==
    [op |-> op, err |-> err, item |-> item, n |-> n]

Range(s) == {s[i] : i \in 1..Len(s)}

\* ------------------------------------------------------------ Heap, one caller
IsIntHeap == cmpFn \in {"maxCmp", "minCmp"}

\* the slice after Heap.Insert of the object at the fresh address a
InsertItems(m, its, a) == upHeap(m, Append(its, a), Len(its))

\* Heap.Insert of the object obj (the parameter item, whose address is stored)
InsertCall(name, obj) ==
    /\ mem' = Append(mem, obj)
    /\ LET r == InsertItems(mem', items, Len(mem')) IN
         /\ items' = r.items
         /\ panicked' = r.panic
         /\ batch' = Range(r.items)
    /\ nInsert' = nInsert + 1
    /\ drained' = <<>>
    /\ last' = Ret(name, "nil", Nil, 0)
    /\ UNCHANGED <<cmpFn, nPopOk>>
    /\ UNCHANGED thrVars
    /\ UNCHANGED snap
    /\ UNCHANGED boxVars

Insert(v) ==
    /\ ~panicked /\ IsIntHeap
    /\ nInsert < MaxInserts
    /\ InsertCall("Insert", v)
    /\ UNCHANGED now

\* PopItems with the new root left where it is (no down-heap)
PopItemsNoSift(m, its) ==
    LET lastIndex == Len(its) - 1 IN
    Step(SubSeq([its EXCEPT ![1] = its[lastIndex + 1]], 1, lastIndex), 0, TRUE, FALSE)

\* PopItems with the slice not shortened
PopItemsNoShrink(m, its) ==
    LET lastIndex == Len(its) - 1 IN
    downHeap(m, [its EXCEPT ![1] = its[lastIndex + 1]], 0)

\* the slice after the removal of the root in Heap.Pop (lines 165-177)
PopItems(m, its) ==
    LET lastIndex == Len(its) - 1
        moved == SubSeq([its EXCEPT ![1] = its[lastIndex + 1]], 1, lastIndex)
    IN  IF Len(moved) > 0 THEN downHeap(m, moved, 0)
        ELSE Step(moved, 0, TRUE, FALSE)

\* PopResult with no check for the empty heap: a nil item as a success
PopResultEmptyOk(m, its) ==
    IF Len(its) = 0
    THEN [err |-> "nil", item |-> Nil, items |-> its, panic |-> FALSE]
    ELSE LET r == PopItems(m, its) IN
         [err |-> "nil", item |-> its[1], items |-> r.items, panic |-> r.panic]

\* what Heap.Pop returns and leaves: [err, item, items, panic]
PopResult(m, its) ==
    IF Len(its) = 0
    THEN [err |-> "ErrorIsEmpty", item |-> Nil, items |-> its, panic |-> FALSE]
    ELSE LET r == PopItems(m, its) IN
         [err |-> "nil", item |-> its[1], items |-> r.items, panic |-> r.panic]

PopCall(name) ==
    LET r == PopResult(mem, items) IN
    /\ items' = r.items
    /\ panicked' = r.panic
    /\ last' = Ret(name, r.err, r.item, 0)
    /\ nPopOk' = IF r.err = "nil" THEN nPopOk + 1 ELSE nPopOk
    /\ drained' = IF r.err = "nil" THEN Append(drained, r.item) ELSE drained
    /\ UNCHANGED <<mem, cmpFn, now, nInsert, batch>>
    /\ UNCHANGED thrVars
    /\ UNCHANGED snap
    /\ UNCHANGED boxVars

Pop ==
    /\ ~panicked /\ IsIntHeap
    /\ PopCall("Pop")

\* PeekResult reading the last slot instead of slot 0
PeekResultLast(its) ==
    IF Len(its) = 0 THEN [err |-> "ErrorIsEmpty", item |-> Nil]
    ELSE [err |-> "nil", item |-> its[Len(its)]]

\* what Heap.Peek returns: [err, item]
PeekResult(its) ==
    IF Len(its) = 0 THEN [err |-> "ErrorIsEmpty", item |-> Nil]
    ELSE [err |-> "nil", item |-> its[1]]

Peek ==
    /\ ~panicked /\ IsIntHeap
    /\ LET r == PeekResult(items) IN last' = Ret("Peek", r.err, r.item, 0)
    /\ UNCHANGED <<items, mem, cmpFn, now, nInsert, nPopOk, drained, batch, panicked>>
    /\ UNCHANGED thrVars
    /\ UNCHANGED snap
    /\ UNCHANGED boxVars

SizeResult(its) == Len(its)

Size ==
    /\ ~panicked /\ IsIntHeap
    /\ last' = Ret("Size", "nil", Nil, SizeResult(items))
    /\ UNCHANGED <<items, mem, cmpFn, now, nInsert, nPopOk, drained, batch, panicked>>
    /\ UNCHANGED thrVars
    /\ UNCHANGED snap
    /\ UNCHANGED boxVars

\* the copy Heap.GetItems returns
GetItemsResult(its) == [i \in 1..Len(its) |-> its[i]]

GetItems ==
    /\ ~panicked /\ IsIntHeap
    /\ last' = Ret("GetItems", "nil", Nil, Len(GetItemsResult(items)))
    /\ UNCHANGED <<items, mem, cmpFn, now, nInsert, nPopOk, drained, batch, panicked>>
    /\ UNCHANGED thrVars
    /\ UNCHANGED snap
    /\ UNCHANGED boxVars

\* the public UpHeap: bounds check, then upHeap
UpHeapItems(m, its, index) ==
    IF index < 0 \/ index >= Len(its) THEN Step(its, index, TRUE, FALSE)
    ELSE upHeap(m, its, index)

\* the public DownHeap: no bounds check
DownHeapItems(m, its, index) == downHeap(m, its, index)

\* the indices a caller passes: every valid one, and one below and one above
Indices == -1..Len(items)

UpHeap(index) ==
    /\ ~panicked /\ IsIntHeap
    /\ LET r == UpHeapItems(mem, items, index) IN
         /\ items' = r.items
         /\ panicked' = r.panic
    /\ last' = Ret("UpHeap", "nil", Nil, 0)
    /\ UNCHANGED <<mem, cmpFn, now, nInsert, nPopOk, drained, batch>>
    /\ UNCHANGED thrVars
    /\ UNCHANGED snap
    /\ UNCHANGED boxVars

DownHeap(index) ==
    /\ ~panicked /\ IsIntHeap
    /\ LET r == DownHeapItems(mem, items, index) IN
         /\ items' = r.items
         /\ panicked' = r.panic
    /\ last' = Ret("DownHeap", "nil", Nil, 0)
    /\ UNCHANGED <<mem, cmpFn, now, nInsert, nPopOk, drained, batch>>
    /\ UNCHANGED thrVars
    /\ UNCHANGED snap
    /\ UNCHANGED boxVars

\* ------------------------------------------------------------ PriorityQueue, one caller
IsPQ == cmpFn \in {"PriorityCmp", "minHeapCmp"}

NewTask(priority, value, t) == [Priority |-> priority, Time |-> t, Value |-> value]

\* time.Now() reads a clock that never runs backwards: a reading is the last
\* one again, or later (now is 0 before the first reading)
TimeNow == IF now = 0 THEN {1} ELSE {now, now + 1}

PQInsert(item, priority) ==
    /\ ~panicked /\ IsPQ
    /\ nInsert < MaxTasks
    /\ \E t \in TimeNow :
         /\ now' = t
         /\ InsertCall("PQInsert", NewTask(priority, item, t))

PQPop ==
    /\ ~panicked /\ IsPQ
    /\ PopCall("PQPop")

\* ScanFirst without the break: the last task whose Value is item
ScanLast(m, its, item) ==
    LET hits == {i \in 0..(Len(its) - 1) : m[its[i + 1]].Value = item} IN
    IF hits = {} THEN -1 ELSE CHOOSE i \in hits : \A j \in hits : i >= j

\* ScanFirst with the loop's index kept when nothing matched
ScanFirstKeepsIndex(m, its, item) ==
    LET hits == {i \in 0..(Len(its) - 1) : m[its[i + 1]].Value = item} IN
    IF hits = {} THEN Len(its) - 1 ELSE CHOOSE i \in hits : \A j \in hits : i <= j

\* the scan of Update (lines 104-112): the index of the first task whose
\* Value is item, or -1 when targetTask stays nil
ScanFirst(m, its, item) ==
    LET hits == {i \in 0..(Len(its) - 1) : m[its[i + 1]].Value = item} IN
    IF hits = {} THEN -1 ELSE CHOOSE i \in hits : \A j \in hits : i <= j

\* UpdateResult with the two sift directions exchanged
UpdateResultSwapped(m, its, item, priority) ==
    LET targetIdx == ScanFirst(m, GetItemsResult(its), item) IN
    IF targetIdx = -1
    THEN [err |-> "ErrNotFound", target |-> Nil, old |-> 0, mem |-> m, items |-> its,
          panic |-> FALSE, changed |-> FALSE]
    ELSE LET targetTask == its[targetIdx + 1]
             old == m[targetTask].Priority
         IN  IF old = priority
             THEN [err |-> "nil", target |-> targetTask, old |-> old, mem |-> m,
                   items |-> its, panic |-> FALSE, changed |-> FALSE]
             ELSE LET toLargerThan == old < priority
                      toLessThan == old > priority
                      m2 == [m EXCEPT ![targetTask].Priority = priority]
                      r == IF toLessThan THEN UpHeapItems(m2, its, targetIdx)
                           ELSE IF toLargerThan THEN DownHeapItems(m2, its, targetIdx)
                           ELSE Step(its, targetIdx, TRUE, FALSE)
                  IN  [err |-> "nil", target |-> targetTask, old |-> old, mem |-> m2,
                       items |-> r.items, panic |-> r.panic, changed |-> TRUE]

\* UpdateResult with the task stamped anew when its priority changes
UpdateResultRestamps(m, its, item, priority) ==
    LET targetIdx == ScanFirst(m, GetItemsResult(its), item) IN
    IF targetIdx = -1
    THEN [err |-> "ErrNotFound", target |-> Nil, old |-> 0, mem |-> m, items |-> its,
          panic |-> FALSE, changed |-> FALSE]
    ELSE LET targetTask == its[targetIdx + 1]
             old == m[targetTask].Priority
         IN  IF old = priority
             THEN [err |-> "nil", target |-> targetTask, old |-> old, mem |-> m,
                   items |-> its, panic |-> FALSE, changed |-> FALSE]
             ELSE LET toLargerThan == old < priority
                      toLessThan == old > priority
                      m2 == [m EXCEPT ![targetTask] =
                                NewTask(priority, m[targetTask].Value, now + 1)]
                      r == IF toLessThan THEN DownHeapItems(m2, its, targetIdx)
                           ELSE IF toLargerThan THEN UpHeapItems(m2, its, targetIdx)
                           ELSE Step(its, targetIdx, TRUE, FALSE)
                  IN  [err |-> "nil", target |-> targetTask, old |-> old, mem |-> m2,
                       items |-> r.items, panic |-> r.panic, changed |-> TRUE]

\* UpdateResult without the return for an unchanged priority (lines 116-118)
UpdateResultNoSameCheck(m, its, item, priority) ==
    LET targetIdx == ScanFirst(m, GetItemsResult(its), item) IN
    IF targetIdx = -1
    THEN [err |-> "ErrNotFound", target |-> Nil, old |-> 0, mem |-> m, items |-> its,
          panic |-> FALSE, changed |-> FALSE]
    ELSE LET targetTask == its[targetIdx + 1]
             old == m[targetTask].Priority
             toLargerThan == old < priority
             toLessThan == old > priority
             m2 == [m EXCEPT ![targetTask].Priority = priority]
             r == IF toLessThan THEN DownHeapItems(m2, its, targetIdx)
                  ELSE IF toLargerThan THEN UpHeapItems(m2, its, targetIdx)
                  ELSE Step(its, targetIdx, TRUE, FALSE)
         IN  [err |-> "nil", target |-> targetTask, old |-> old, mem |-> m2,
              items |-> r.items, panic |-> r.panic, changed |-> TRUE]

\* what PriorityQueue.Update returns and leaves: [err, target, old, mem, items, panic, changed]
\* (old: the priority the target had, 0 when there is none)
UpdateResult(m, its, item, priority) ==
    LET targetIdx == ScanFirst(m, GetItemsResult(its), item) IN
    IF targetIdx = -1
    THEN [err |-> "ErrNotFound", target |-> Nil, old |-> 0, mem |-> m, items |-> its,
          panic |-> FALSE, changed |-> FALSE]
    ELSE LET targetTask == its[targetIdx + 1]
             old == m[targetTask].Priority
         IN  IF old = priority
             THEN [err |-> "nil", target |-> targetTask, old |-> old, mem |-> m,
                   items |-> its, panic |-> FALSE, changed |-> FALSE]
             ELSE LET toLargerThan == old < priority
                      toLessThan == old > priority
                      m2 == [m EXCEPT ![targetTask].Priority = priority]
                      r == IF toLessThan THEN DownHeapItems(m2, its, targetIdx)
                           ELSE IF toLargerThan THEN UpHeapItems(m2, its, targetIdx)
                           ELSE Step(its, targetIdx, TRUE, FALSE)
                  IN  [err |-> "nil", target |-> targetTask, old |-> old, mem |-> m2,
                       items |-> r.items, panic |-> r.panic, changed |-> TRUE]

PQUpdate(item, priority) ==
    /\ ~panicked /\ IsPQ
    /\ LET r == UpdateResult(mem, items, item, priority) IN
         /\ mem' = r.mem
         /\ items' = r.items
         /\ panicked' = r.panic
         /\ last' = Ret("Update", r.err, r.target, r.old)
         /\ drained' = IF r.changed THEN <<>> ELSE drained
         /\ batch' = IF r.changed THEN Range(r.items) ELSE batch
    /\ UNCHANGED <<cmpFn, now, nInsert, nPopOk>>
    /\ UNCHANGED thrVars
    /\ UNCHANGED snap
    /\ UNCHANGED boxVars

\* ------------------------------------------------------------ queue and stack
\* the capacities a Queue or Stack is made with
MaxCap == 3

\* the items a caller has to put in, as addresses
NumItems == 2

\* successful Enqueues of one run
MaxEnqueues == 6

\* successful Pushes of one run
MaxPushes == 5

ItemPtrs == 1..NumItems

\* everything of the heap model but last
heapRest == <<items, mem, cmpFn, now, nInsert, nPopOk, drained, batch, panicked,
              mu, pc, loc, calls, snap>>

\* in: the items of the successful Enqueues or Pushes, in order; out: the items
\* of the successful Dequeues; nilIn: a nil item was enqueued; live: the items
\* pushed and not yet popped, oldest first
NoHist == [in |-> <<>>, out |-> <<>>, nilIn |-> FALSE, live |-> <<>>]

NewQueue(size) ==
    [items |-> [i \in 1..size |-> Nil], size |-> size, head |-> 0, tail |-> 0]

QueueIsEmpty(q) == q.head = q.tail /\ q.items[q.head + 1] = Nil

\* IsFull with one slot kept free: (tail + 1) % size == head
QueueIsFullOneFree(q) == (q.tail + 1) % q.size = q.head

QueueIsFull(q) ==
    IF QueueIsEmpty(q) THEN FALSE ELSE q.tail % q.size = q.head

EnqueueResult(q, item) ==
    IF QueueIsFull(q)
    THEN [q |-> q, err |-> "ErrorQueueOverflow"]
    ELSE [q |-> [q EXCEPT !.items[q.tail + 1] = item,
                          !.tail = (q.tail + 1) % q.size],
          err |-> "nil"]

\* Dequeue that leaves head where it is
DequeueResultKeepsHead(q) ==
    IF QueueIsEmpty(q)
    THEN [q |-> q, item |-> Nil, err |-> "ErrorQueueUnderflow"]
    ELSE [q |-> [q EXCEPT !.items[q.head + 1] = Nil],
          item |-> q.items[q.head + 1], err |-> "nil"]

DequeueResult(q) ==
    IF QueueIsEmpty(q)
    THEN [q |-> q, item |-> Nil, err |-> "ErrorQueueUnderflow"]
    ELSE [q |-> [q EXCEPT !.items[q.head + 1] = Nil,
                          !.head = (q.head + 1) % q.size],
          item |-> q.items[q.head + 1], err |-> "nil"]

QueuePeekResult(q) ==
    IF QueueIsEmpty(q)
    THEN [q |-> q, item |-> Nil, err |-> "ErrorQueueUnderflow"]
    ELSE [q |-> q, item |-> q.items[q.head + 1], err |-> "nil"]

Enqueue(item) ==
    /\ Len(hist.in) < MaxEnqueues
    /\ LET r == EnqueueResult(queue, item) IN
         /\ queue' = r.q
         /\ last' = Ret("Enqueue", r.err, item, 0)
         /\ hist' = IF r.err = "nil"
                    THEN [hist EXCEPT !.in = Append(@, item),
                                      !.nilIn = @ \/ item = Nil]
                    ELSE hist
    /\ UNCHANGED stack
    /\ UNCHANGED heapRest

Dequeue ==
    /\ LET r == DequeueResult(queue) IN
         /\ queue' = r.q
         /\ last' = Ret("Dequeue", r.err, r.item, 0)
         /\ hist' = IF r.err = "nil" THEN [hist EXCEPT !.out = Append(@, r.item)]
                    ELSE hist
    /\ UNCHANGED stack
    /\ UNCHANGED heapRest

QueuePeek ==
    /\ LET r == QueuePeekResult(queue) IN
         /\ queue' = r.q
         /\ last' = Ret("QueuePeek", r.err, r.item, 0)
    /\ UNCHANGED <<stack, hist>>
    /\ UNCHANGED heapRest

\* q.IsEmpty() and q.IsFull() as calls: n is 1 for true, 0 for false
QueueIsEmptyCall ==
    /\ last' = Ret("QueueIsEmpty", "nil", Nil, IF QueueIsEmpty(queue) THEN 1 ELSE 0)
    /\ UNCHANGED boxVars
    /\ UNCHANGED heapRest

QueueIsFullCall ==
    /\ last' = Ret("QueueIsFull", "nil", Nil, IF QueueIsFull(queue) THEN 1 ELSE 0)
    /\ UNCHANGED boxVars
    /\ UNCHANGED heapRest

NewStack(size) == [items |-> [i \in 1..size |-> Nil], size |-> size, top |-> 0]

StackIsEmpty(s) == s.top = 0

StackIsFull(s) == s.top >= s.size

PushResult(s, item) ==
    IF StackIsFull(s)
    THEN [s |-> s, err |-> "ErrorStackOverflow"]
    ELSE [s |-> [s EXCEPT !.items[s.top + 1] = item, !.top = s.top + 1],
          err |-> "nil"]

\* Pop that leaves top where it is
StackPopResultKeepsTop(s) ==
    IF StackIsEmpty(s)
    THEN [s |-> s, item |-> Nil, err |-> "ErrorStackUnderflow"]
    ELSE [s |-> [s EXCEPT !.items[s.top] = Nil],
          item |-> s.items[s.top], err |-> "nil"]

StackPopResult(s) ==
    IF StackIsEmpty(s)
    THEN [s |-> s, item |-> Nil, err |-> "ErrorStackUnderflow"]
    ELSE [s |-> [s EXCEPT !.items[s.top] = Nil, !.top = s.top - 1],
          item |-> s.items[s.top], err |-> "nil"]

StackPeekResult(s) ==
    IF StackIsEmpty(s)
    THEN [s |-> s, item |-> Nil, err |-> "ErrorStackUnderflow"]
    ELSE [s |-> s, item |-> s.items[s.top], err |-> "nil"]

Push(item) ==
    /\ Len(hist.in) < MaxPushes
    /\ LET r == PushResult(stack, item) IN
         /\ stack' = r.s
         /\ last' = Ret("Push", r.err, item, 0)
         /\ hist' = IF r.err = "nil"
                    THEN [hist EXCEPT !.in = Append(@, item), !.live = Append(@, item)]
                    ELSE hist
    /\ UNCHANGED queue
    /\ UNCHANGED heapRest

StackPop ==
    /\ LET r == StackPopResult(stack) IN
         /\ stack' = r.s
         /\ last' = Ret("StackPop", r.err, r.item, 0)
         /\ hist' = IF r.err = "nil"
                    THEN [hist EXCEPT !.live = SubSeq(@, 1, Len(@) - 1)]
                    ELSE hist
    /\ UNCHANGED queue
    /\ UNCHANGED heapRest

StackPeek ==
    /\ LET r == StackPeekResult(stack) IN
         /\ stack' = r.s
         /\ last' = Ret("StackPeek", r.err, r.item, 0)
    /\ UNCHANGED <<queue, hist>>
    /\ UNCHANGED heapRest

\* ------------------------------------------------------------ specification
Init ==
    /\ items = <<>>
    /\ mem = <<>>
    /\ cmpFn \in {"maxCmp", "minCmp", "PriorityCmp"}
    /\ now = 0
    /\ last = Ret("New", "nil", Nil, 0)
    /\ nInsert = 0
    /\ nPopOk = 0
    /\ drained = <<>>
    /\ batch = {}
    /\ panicked = FALSE
    /\ mu = NoLock
    /\ pc = [t \in Threads |-> "idle"]
    /\ loc = [t \in Threads |-> NoLoc]
    /\ calls = 0
    /\ snap = NoSlice
    /\ queue = NewQueue(1)
    /\ stack = NewStack(1)
    /\ hist = NoHist

NextHeap ==
    \/ \E v \in Values : Insert(v)
    \/ Pop
    \/ Peek
    \/ Size
    \/ GetItems
    \/ \E i \in Indices : UpHeap(i)
    \/ \E i \in Indices : DownHeap(i)

NextPQ ==
    \/ \E v \in Payloads, p \in Priorities : PQInsert(v, p)
    \/ PQPop
    \/ \E v \in Payloads, p \in Priorities : PQUpdate(v, p)

Next == NextHeap \/ NextPQ

\* a Heap of ints or a PriorityQueue, one caller
Spec == Init /\ [][Next]_vars

\* a Heap of ints under maxCmp or minCmp, one caller
InitHeap == Init /\ IsIntHeap

SpecHeap == InitHeap /\ [][NextHeap]_vars

\* a PriorityQueue under PriorityCmp, one caller
InitPQ == Init /\ IsPQ

SpecPQ == InitPQ /\ [][NextPQ]_vars

\* a PriorityQueue made by NewPriorityQueue(minHeapCmp), one caller
InitMinPQ ==
    /\ items = <<>>
    /\ mem = <<>>
    /\ cmpFn = "minHeapCmp"
    /\ now = 0
    /\ last = Ret("New", "nil", Nil, 0)
    /\ nInsert = 0
    /\ nPopOk = 0
    /\ drained = <<>>
    /\ batch = {}
    /\ panicked = FALSE
    /\ mu = NoLock
    /\ pc = [t \in Threads |-> "idle"]
    /\ loc = [t \in Threads |-> NoLoc]
    /\ calls = 0
    /\ snap = NoSlice
    /\ queue = NewQueue(1)
    /\ stack = NewStack(1)
    /\ hist = NoHist

SpecMinPQ == InitMinPQ /\ [][NextPQ]_vars

\* ------------------------------------------------------------ goroutines: calls step by step
\* Each goroutine runs one call at a time.  A step is a lock operation, or the
\* code between two of them up to the next access to shared data: a sift loop
\* takes one step for each iteration, and the unsynchronised reads and the
\* write of Task.Priority in PriorityQueue.Update take one step each.
MaxCalls == 4

MaxPQCalls == 3

\* the number of calls the goroutines make in all
CallLimit == IF cmpFn = "PriorityCmp" THEN MaxPQCalls ELSE MaxCalls

Goto(t, label) == pc' = [pc EXCEPT ![t] = label]

\* a Lock() that excludes nobody
CanLockAlways(t) == TRUE

\* an RLock() that a writer does not exclude
CanRLockAlways(t) == TRUE

\* h.mu.Lock() returns: no writer and no reader holds the lock
CanLock(t) == mu.writer = 0 /\ mu.readers = {}

\* h.mu.RLock() returns: no writer holds the lock
CanRLock(t) == mu.writer = 0

\* the call returns: the goroutine is idle again
Return(t, name, err, item, n) ==
    /\ Goto(t, "idle")
    /\ loc' = [loc EXCEPT ![t] = NoLoc]
    /\ last' = Ret(name, err, item, n)

\* Heap.Insert is entered: its parameter item, whose address is stored
CallInsert(t, v) ==
    /\ ~panicked /\ IsIntHeap /\ pc[t] = "idle" /\ calls < CallLimit
    /\ calls' = calls + 1
    /\ mem' = Append(mem, v)
    /\ loc' = [loc EXCEPT ![t] = [NoLoc EXCEPT !.op = "Insert", !.ptr = Len(mem')]]
    /\ Goto(t, "Insert.lock")
    /\ UNCHANGED <<items, cmpFn, now, last, nInsert, nPopOk, drained, batch, panicked, mu>>
    /\ UNCHANGED snap
    /\ UNCHANGED boxVars

\* PriorityQueue.Insert: NewTask reads the clock, then Heap.Insert is entered
CallPQInsert(t, item, priority) ==
    /\ ~panicked /\ IsPQ /\ pc[t] = "idle" /\ calls < CallLimit
    /\ calls' = calls + 1
    /\ \E tm \in TimeNow :
         /\ now' = tm
         /\ mem' = Append(mem, NewTask(priority, item, tm))
    /\ loc' = [loc EXCEPT ![t] = [NoLoc EXCEPT !.op = "Insert", !.ptr = Len(mem')]]
    /\ Goto(t, "Insert.lock")
    /\ UNCHANGED <<items, cmpFn, last, nInsert, nPopOk, drained, batch, panicked, mu>>
    /\ UNCHANGED snap
    /\ UNCHANGED boxVars

\* Heap.Pop (PriorityQueue.Pop passes its result through) is entered
CallPop(t) ==
    /\ ~panicked /\ pc[t] = "idle" /\ calls < CallLimit
    /\ calls' = calls + 1
    /\ loc' = [loc EXCEPT ![t] = [NoLoc EXCEPT !.op = "Pop"]]
    /\ Goto(t, "Pop.lock")
    /\ UNCHANGED <<items, mem, cmpFn, now, last, nInsert, nPopOk, drained, batch, panicked, mu>>
    /\ UNCHANGED snap
    /\ UNCHANGED boxVars

\* PriorityQueue.Update is entered; it calls Heap.GetItems first
CallUpdate(t, item, priority) ==
    /\ ~panicked /\ IsPQ /\ pc[t] = "idle" /\ calls < CallLimit
    /\ calls' = calls + 1
    /\ loc' = [loc EXCEPT ![t] = [NoLoc EXCEPT !.op = "Update", !.item = item,
                                                 !.priority = priority]]
    /\ Goto(t, "GetItems.rlock")
    /\ UNCHANGED <<items, mem, cmpFn, now, last, nInsert, nPopOk, drained, batch, panicked, mu>>
    /\ UNCHANGED snap
    /\ UNCHANGED boxVars

\* h.mu.Lock() of Insert, Pop, UpHeap and DownHeap
LockPcs == {"Insert.lock", "Pop.lock", "UpHeap.lock", "DownHeap.lock"}

AfterLock(label) ==
    CASE label = "Insert.lock" -> "Insert.append"
      [] label = "Pop.lock" -> "Pop.remove"
      [] label = "UpHeap.lock" -> "UpHeap.check"
      [] label = "DownHeap.lock" -> "DownHeap.enter"

Lock(t) ==
    /\ ~panicked /\ pc[t] \in LockPcs
    /\ CanLock(t)
    /\ mu' = [mu EXCEPT !.writer = t]
    /\ Goto(t, AfterLock(pc[t]))
    /\ UNCHANGED <<items, mem, cmpFn, now, last, nInsert, nPopOk, drained, batch, panicked,
                   loc, calls>>
    /\ UNCHANGED snap
    /\ UNCHANGED boxVars

\* Insert: heap.items = append(heap.items, &item), and the argument of upHeap
InsertAppend(t) ==
    /\ ~panicked /\ pc[t] = "Insert.append"
    /\ items' = Append(items, loc[t].ptr)
    /\ loc' = [loc EXCEPT ![t].index = Len(items') - 1]
    /\ Goto(t, "Insert.upHeap")
    /\ UNCHANGED <<mem, cmpFn, now, last, nInsert, nPopOk, drained, batch, panicked,
                   mu, calls>>
    /\ UNCHANGED snap
    /\ UNCHANGED boxVars

\* one iteration of upHeap's loop, in Insert or in UpHeap
UpHeapLoop(t) ==
    /\ ~panicked /\ pc[t] \in {"Insert.upHeap", "UpHeap.upHeap"}
    /\ LET r == upHeapIter(mem, items, loc[t].index) IN
         /\ items' = r.items
         /\ panicked' = r.panic
         /\ loc' = [loc EXCEPT ![t].index = r.index]
         /\ IF r.done
            THEN Goto(t, IF pc[t] = "Insert.upHeap" THEN "Insert.unlock" ELSE "UpHeap.unlock")
            ELSE UNCHANGED pc
    /\ UNCHANGED <<mem, cmpFn, now, last, nInsert, nPopOk, drained, batch, mu, calls>>
    /\ UNCHANGED snap
    /\ UNCHANGED boxVars

\* Pop, lines 160-177 up to the call of downHeap
PopRemove(t) ==
    /\ ~panicked /\ pc[t] = "Pop.remove"
    /\ IF Len(items) = 0
       THEN /\ loc' = [loc EXCEPT ![t].err = "ErrorIsEmpty"]
            /\ Goto(t, "Pop.unlock")
            /\ UNCHANGED items
       ELSE LET lastIndex == Len(items) - 1 IN
            /\ items' = SubSeq([items EXCEPT ![1] = items[lastIndex + 1]], 1, lastIndex)
            /\ loc' = [loc EXCEPT ![t].top = items[1], ![t].index = 0,
                                   ![t].heapSize = Len(items')]
            /\ Goto(t, IF Len(items') > 0 THEN "Pop.downHeap" ELSE "Pop.unlock")
    /\ UNCHANGED <<mem, cmpFn, now, last, nInsert, nPopOk, drained, batch, panicked,
                   mu, calls>>
    /\ UNCHANGED snap
    /\ UNCHANGED boxVars

\* one iteration of downHeapWithSize's loop, in Pop or in DownHeap
DownHeapLoop(t) ==
    /\ ~panicked /\ pc[t] \in {"Pop.downHeap", "DownHeap.downHeap"}
    /\ LET r == downHeapIter(mem, items, loc[t].index, loc[t].heapSize) IN
         /\ items' = r.items
         /\ panicked' = r.panic
         /\ loc' = [loc EXCEPT ![t].index = r.index]
         /\ IF r.done
            THEN Goto(t, IF pc[t] = "Pop.downHeap" THEN "Pop.unlock" ELSE "DownHeap.unlock")
            ELSE UNCHANGED pc
    /\ UNCHANGED <<mem, cmpFn, now, last, nInsert, nPopOk, drained, batch, mu, calls>>
    /\ UNCHANGED snap
    /\ UNCHANGED boxVars

\* UpHeapCheck with the bounds check left out
UpHeapCheckNone(t) ==
    /\ ~panicked /\ pc[t] = "UpHeap.check"
    /\ Goto(t, "UpHeap.upHeap")
    /\ UNCHANGED <<items, mem, cmpFn, now, last, nInsert, nPopOk, drained, batch, panicked,
                   mu, loc, calls>>
    /\ UNCHANGED snap
    /\ UNCHANGED boxVars

\* UpHeap, lines 101-104: the bounds check
UpHeapCheck(t) ==
    /\ ~panicked /\ pc[t] = "UpHeap.check"
    /\ Goto(t, IF loc[t].index < 0 \/ loc[t].index >= Len(items)
                THEN "UpHeap.unlock" ELSE "UpHeap.upHeap")
    /\ UNCHANGED <<items, mem, cmpFn, now, last, nInsert, nPopOk, drained, batch, panicked,
                   mu, loc, calls>>
    /\ UNCHANGED snap
    /\ UNCHANGED boxVars

\* DownHeap, line 121, and downHeap: the bound is the length now
DownHeapEnter(t) ==
    /\ ~panicked /\ pc[t] = "DownHeap.enter"
    /\ loc' = [loc EXCEPT ![t].heapSize = Len(items)]
    /\ Goto(t, "DownHeap.downHeap")
    /\ UNCHANGED <<items, mem, cmpFn, now, last, nInsert, nPopOk, drained, batch, panicked,
                   mu, calls>>
    /\ UNCHANGED snap
    /\ UNCHANGED boxVars

\* the deferred h.mu.Unlock() of Insert, and Insert returns
InsertUnlock(t) ==
    /\ ~panicked /\ pc[t] = "Insert.unlock"
    /\ mu' = [mu EXCEPT !.writer = 0]
    /\ nInsert' = nInsert + 1
    /\ Return(t, IF IsPQ THEN "PQInsert" ELSE "Insert", "nil", Nil, 0)
    /\ UNCHANGED <<items, mem, cmpFn, now, nPopOk, drained, batch, panicked, calls>>
    /\ UNCHANGED snap
    /\ UNCHANGED boxVars

\* the deferred h.mu.Unlock() of Pop, and Pop returns
PopUnlock(t) ==
    /\ ~panicked /\ pc[t] = "Pop.unlock"
    /\ mu' = [mu EXCEPT !.writer = 0]
    /\ nPopOk' = IF loc[t].err = "nil" THEN nPopOk + 1 ELSE nPopOk
    /\ Return(t, IF IsPQ THEN "PQPop" ELSE "Pop", loc[t].err, loc[t].top, 0)
    /\ UNCHANGED <<items, mem, cmpFn, now, nInsert, drained, batch, panicked, calls>>
    /\ UNCHANGED snap
    /\ UNCHANGED boxVars

\* the deferred h.mu.Unlock() of UpHeap or DownHeap, which returns; when
\* Update called it, Update returns nil
SiftUnlock(t) ==
    /\ ~panicked /\ pc[t] \in {"UpHeap.unlock", "DownHeap.unlock"}
    /\ mu' = [mu EXCEPT !.writer = 0]
    /\ IF loc[t].op = "Update"
       THEN Return(t, "Update", "nil", loc[t].targetTask, loc[t].old)
       ELSE Return(t, loc[t].op, "nil", Nil, 0)
    /\ UNCHANGED <<items, mem, cmpFn, now, nInsert, nPopOk, drained, batch, panicked, calls>>
    /\ UNCHANGED snap
    /\ UNCHANGED boxVars

\* h.mu.RLock() of GetItems, Peek and Size
RLockPcs == {"GetItems.rlock", "Peek.rlock", "Size.rlock"}

AfterRLock(label) ==
    CASE label = "GetItems.rlock" -> "GetItems.copy"
      [] label = "Peek.rlock" -> "Peek.read"
      [] label = "Size.rlock" -> "Size.read"

RLock(t) ==
    /\ ~panicked /\ pc[t] \in RLockPcs
    /\ CanRLock(t)
    /\ mu' = [mu EXCEPT !.readers = @ \cup {t}]
    /\ Goto(t, AfterRLock(pc[t]))
    /\ UNCHANGED <<items, mem, cmpFn, now, last, nInsert, nPopOk, drained, batch, panicked,
                   loc, calls>>
    /\ UNCHANGED snap
    /\ UNCHANGED boxVars

\* GetItems, lines 73-74: copies the slice
GetItemsCopy(t) ==
    /\ ~panicked /\ pc[t] = "GetItems.copy"
    /\ loc' = [loc EXCEPT ![t].copy = GetItemsResult(items)]
    /\ Goto(t, "GetItems.runlock")
    /\ UNCHANGED <<items, mem, cmpFn, now, last, nInsert, nPopOk, drained, batch, panicked,
                   mu, calls>>
    /\ UNCHANGED snap
    /\ UNCHANGED boxVars

\* Peek, lines 192-195: reads the length and slot 0
PeekRead(t) ==
    /\ ~panicked /\ pc[t] = "Peek.read"
    /\ LET r == PeekResult(items) IN
         loc' = [loc EXCEPT ![t].err = r.err, ![t].top = r.item]
    /\ Goto(t, "Peek.runlock")
    /\ UNCHANGED <<items, mem, cmpFn, now, last, nInsert, nPopOk, drained, batch, panicked,
                   mu, calls>>
    /\ UNCHANGED snap
    /\ UNCHANGED boxVars

\* Size, line 204: reads the length
SizeRead(t) ==
    /\ ~panicked /\ pc[t] = "Size.read"
    /\ loc' = [loc EXCEPT ![t].size = SizeResult(items)]
    /\ Goto(t, "Size.runlock")
    /\ UNCHANGED <<items, mem, cmpFn, now, last, nInsert, nPopOk, drained, batch, panicked,
                   mu, calls>>
    /\ UNCHANGED snap
    /\ UNCHANGED boxVars

\* the deferred h.mu.RUnlock() of GetItems, Peek or Size, which returns (GetItems
\* to Update when Update called it)
RUnlock(t) ==
    /\ ~panicked /\ pc[t] \in {"GetItems.runlock", "Peek.runlock", "Size.runlock"}
    /\ mu' = [mu EXCEPT !.readers = @ \ {t}]
    /\ IF loc[t].op = "Update"
       THEN Goto(t, "Update.scan") /\ UNCHANGED <<loc, last>>
       ELSE Return(t, loc[t].op, loc[t].err, loc[t].top,
                   IF loc[t].op = "GetItems" THEN Len(loc[t].copy) ELSE loc[t].size)
    /\ UNCHANGED <<items, mem, cmpFn, now, nInsert, nPopOk, drained, batch, panicked, calls>>
    /\ UNCHANGED snap
    /\ UNCHANGED boxVars

\* Update, lines 104-115: the scan of the copy
UpdateScan(t) ==
    /\ ~panicked /\ pc[t] = "Update.scan"
    /\ LET idx == ScanFirst(mem, loc[t].copy, loc[t].item) IN
       IF idx = -1
       THEN Return(t, "Update", "ErrNotFound", Nil, 0)
       ELSE /\ loc' = [loc EXCEPT ![t].targetIdx = idx, ![t].targetTask = loc[t].copy[idx + 1]]
            /\ Goto(t, "Update.check")
            /\ UNCHANGED last
    /\ UNCHANGED <<items, mem, cmpFn, now, nInsert, nPopOk, drained, batch, panicked,
                   mu, calls>>
    /\ UNCHANGED snap
    /\ UNCHANGED boxVars

\* Update, lines 116-118: reads targetTask.Priority, no lock held
UpdateCheck(t) ==
    /\ ~panicked /\ pc[t] = "Update.check"
    /\ LET old == mem[loc[t].targetTask].Priority IN
       IF old = loc[t].priority
       THEN Return(t, "Update", "nil", loc[t].targetTask, old)
       ELSE /\ loc' = [loc EXCEPT ![t].old = old]
            /\ Goto(t, "Update.toLargerThan")
            /\ UNCHANGED last
    /\ UNCHANGED <<items, mem, cmpFn, now, nInsert, nPopOk, drained, batch, panicked,
                   mu, calls>>
    /\ UNCHANGED snap
    /\ UNCHANGED boxVars

\* Update, line 120: reads targetTask.Priority, no lock held
UpdateToLargerThan(t) ==
    /\ ~panicked /\ pc[t] = "Update.toLargerThan"
    /\ loc' = [loc EXCEPT ![t].toLargerThan = mem[loc[t].targetTask].Priority < loc[t].priority]
    /\ Goto(t, "Update.toLessThan")
    /\ UNCHANGED <<items, mem, cmpFn, now, last, nInsert, nPopOk, drained, batch, panicked,
                   mu, calls>>
    /\ UNCHANGED snap
    /\ UNCHANGED boxVars

\* Update, line 121: reads targetTask.Priority, no lock held
UpdateToLessThan(t) ==
    /\ ~panicked /\ pc[t] = "Update.toLessThan"
    /\ loc' = [loc EXCEPT ![t].toLessThan = mem[loc[t].targetTask].Priority > loc[t].priority]
    /\ Goto(t, "Update.write")
    /\ UNCHANGED <<items, mem, cmpFn, now, last, nInsert, nPopOk, drained, batch, panicked,
                   mu, calls>>
    /\ UNCHANGED snap
    /\ UNCHANGED boxVars

\* Update, lines 123-132: writes targetTask.Priority, no lock held, and calls
\* DownHeap(targetIdx) or UpHeap(targetIdx)
UpdateWrite(t) ==
    /\ ~panicked /\ pc[t] = "Update.write"
    /\ mem' = [mem EXCEPT ![loc[t].targetTask].Priority = loc[t].priority]
    /\ IF loc[t].toLessThan
       THEN /\ loc' = [loc EXCEPT ![t].index = loc[t].targetIdx]
            /\ Goto(t, "DownHeap.lock")
            /\ UNCHANGED last
       ELSE IF loc[t].toLargerThan
       THEN /\ loc' = [loc EXCEPT ![t].index = loc[t].targetIdx]
            /\ Goto(t, "UpHeap.lock")
            /\ UNCHANGED last
       ELSE Return(t, "Update", "nil", loc[t].targetTask, loc[t].old)
    /\ UNCHANGED <<items, cmpFn, now, nInsert, nPopOk, drained, batch, panicked, mu, calls>>
    /\ UNCHANGED snap
    /\ UNCHANGED boxVars

\* the steps of Insert and Pop
StepHeap(t) ==
    \/ Lock(t)
    \/ InsertAppend(t)
    \/ UpHeapLoop(t)
    \/ PopRemove(t)
    \/ DownHeapLoop(t)
    \/ InsertUnlock(t)
    \/ PopUnlock(t)

\* the steps of Update
StepUpdate(t) ==
    \/ RLock(t)
    \/ GetItemsCopy(t)
    \/ RUnlock(t)
    \/ UpdateScan(t)
    \/ UpdateCheck(t)
    \/ UpdateToLargerThan(t)
    \/ UpdateToLessThan(t)
    \/ UpdateWrite(t)
    \/ UpHeapCheck(t)
    \/ DownHeapEnter(t)
    \/ SiftUnlock(t)

\* goroutines calling Insert and Pop on a shared Heap of ints
NextConcHeap ==
    \E t \in Threads :
        \/ \E v \in Values : CallInsert(t, v)
        \/ CallPop(t)
        \/ StepHeap(t)

SpecConcHeap == InitHeap /\ [][NextConcHeap]_vars

\* goroutines calling Insert, Pop and Update on a shared PriorityQueue
NextConcPQ ==
    \E t \in Threads :
        \/ \E v \in Payloads, p \in Priorities : CallPQInsert(t, v, p)
        \/ CallPop(t)
        \/ \E v \in Payloads, p \in Priorities : CallUpdate(t, v, p)
        \/ StepHeap(t)
        \/ StepUpdate(t)

SpecConcPQ == InitPQ /\ [][NextConcPQ]_vars

\* a PriorityQueue that two Insert calls of one caller have filled with the
\* tasks 1 and 2, before the goroutines start
InitFilledPQ ==
    \E p1 \in Priorities, p2 \in Priorities :
        LET m == <<NewTask(p1, 1, 1), NewTask(p2, 2, 2)>> IN
        /\ cmpFn = "PriorityCmp"
        /\ mem = m
        /\ items = InsertItems(m, InsertItems(m, <<>>, 1).items, 2).items
        /\ now = 2
        /\ last = Ret("PQInsert", "nil", Nil, 0)
        /\ nInsert = 2
        /\ nPopOk = 0
        /\ drained = <<>>
        /\ batch = {}
        /\ panicked = FALSE
        /\ mu = NoLock
        /\ pc = [t \in Threads |-> "idle"]
        /\ loc = [t \in Threads |-> NoLoc]
        /\ calls = 0
        /\ snap = NoSlice
        /\ queue = NewQueue(1)
        /\ stack = NewStack(1)
        /\ hist = NoHist

\* goroutines calling Update for the tasks 1 and 2, Pop, and Insert of a new
\* task on a shared PriorityQueue that already holds the tasks 1 and 2
NextConcFilledPQ ==
    \E t \in Threads :
        \/ CallPQInsert(t, NumPayloads, MaxPrio)
        \/ CallPop(t)
        \/ \E v \in {1, 2}, p \in Priorities : CallUpdate(t, v, p)
        \/ StepHeap(t)
        \/ StepUpdate(t)

SpecConcFilledPQ == InitFilledPQ /\ [][NextConcFilledPQ]_vars

\* UpHeap(index) or DownHeap(index) is entered
CallSift(t, name, index) ==
    /\ ~panicked /\ IsIntHeap /\ pc[t] = "idle" /\ calls < CallLimit
    /\ calls' = calls + 1
    /\ loc' = [loc EXCEPT ![t] = [NoLoc EXCEPT !.op = name, !.index = index]]
    /\ Goto(t, IF name = "UpHeap" THEN "UpHeap.lock" ELSE "DownHeap.lock")
    /\ UNCHANGED <<items, mem, cmpFn, now, last, nInsert, nPopOk, drained, batch, panicked, mu>>
    /\ UNCHANGED snap
    /\ UNCHANGED boxVars

\* Peek, Size or GetItems is entered
CallRead(t, name) ==
    /\ ~panicked /\ IsIntHeap /\ pc[t] = "idle" /\ calls < CallLimit
    /\ calls' = calls + 1
    /\ loc' = [loc EXCEPT ![t] = [NoLoc EXCEPT !.op = name]]
    /\ Goto(t, CASE name = "Peek" -> "Peek.rlock"
                  [] name = "Size" -> "Size.rlock"
                  [] name = "GetItems" -> "GetItems.rlock")
    /\ UNCHANGED <<items, mem, cmpFn, now, last, nInsert, nPopOk, drained, batch, panicked, mu>>
    /\ UNCHANGED snap
    /\ UNCHANGED boxVars

\* the steps of UpHeap, DownHeap, Peek, Size and GetItems
StepOps(t) ==
    \/ UpHeapCheck(t)
    \/ DownHeapEnter(t)
    \/ SiftUnlock(t)
    \/ RLock(t)
    \/ GetItemsCopy(t)
    \/ PeekRead(t)
    \/ SizeRead(t)
    \/ RUnlock(t)

\* goroutines calling every method of a shared Heap of ints
NextConcOps ==
    \E t \in Threads :
        \/ \E v \in Values : CallInsert(t, v)
        \/ CallPop(t)
        \/ \E i \in Indices : CallSift(t, "UpHeap", i)
        \/ \E i \in Indices : CallSift(t, "DownHeap", i)
        \/ \E name \in {"Peek", "Size", "GetItems"} : CallRead(t, name)
        \/ StepHeap(t)
        \/ StepOps(t)

SpecConcOps == InitHeap /\ [][NextConcOps]_vars

\* a step of the call goroutine t is in
ThreadStep(t) == StepHeap(t) \/ StepOps(t)

\* SpecConcOps with every goroutine scheduled again and again
FairConcOps == SpecConcOps /\ \A t \in Threads : WF_vars(ThreadStep(t))

\* the indices that are valid when the call is made
ValidIndices == 0..(Len(items) - 1)

\* goroutines calling UpHeap, DownHeap, Insert and Peek on a shared Heap of ints
NextConcSift ==
    \E t \in Threads :
        \/ \E v \in Values : CallInsert(t, v)
        \/ \E i \in ValidIndices : CallSift(t, "UpHeap", i)
        \/ \E i \in ValidIndices : CallSift(t, "DownHeap", i)
        \/ CallRead(t, "Peek")
        \/ Lock(t)
        \/ InsertAppend(t)
        \/ UpHeapLoop(t)
        \/ DownHeapLoop(t)
        \/ InsertUnlock(t)
        \/ UpHeapCheck(t)
        \/ DownHeapEnter(t)
        \/ SiftUnlock(t)
        \/ RLock(t)
        \/ PeekRead(t)
        \/ RUnlock(t)

SpecConcSift == InitHeap /\ [][NextConcSift]_vars

\* goroutines calling GetItems, Peek, Insert and Pop on a shared Heap of ints
NextConcRead ==
    \E t \in Threads :
        \/ \E v \in Values : CallInsert(t, v)
        \/ CallPop(t)
        \/ \E name \in {"Peek", "GetItems"} : CallRead(t, name)
        \/ StepHeap(t)
        \/ RLock(t)
        \/ GetItemsCopy(t)
        \/ PeekRead(t)
        \/ RUnlock(t)

SpecConcRead == InitHeap /\ [][NextConcRead]_vars

\* a Heap of ints, one caller, UpHeap and DownHeap with valid indices only
NextHeapValid ==
    \/ \E v \in Values : Insert(v)
    \/ Pop
    \/ Peek
    \/ \E i \in ValidIndices : UpHeap(i)
    \/ \E i \in ValidIndices : DownHeap(i)

SpecHeapValid == InitHeap /\ [][NextHeapValid]_vars

\* every call has returned
Quiescent == \A t \in Threads : pc[t] = "idle"

\* ------------------------------------------------------------ the slice GetItems returns
MaxCallerOps == 1

\* GetItems returning h.items itself
GetItemsSliceAlias(its) == [held |-> TRUE, alias |-> TRUE, elems |-> its]

\* the slice GetItems returns: itemsCopy, a new array (make) filled by copy
GetItemsSlice(its) == [held |-> TRUE, alias |-> FALSE, elems |-> GetItemsResult(its)]

\* slot i of the slice sl (a slot of the array of h.items beyond len(h.items)
\* holds nil: Pop clears it, line 171)
SliceLoad(sl, its, i) ==
    IF sl.alias THEN (IF i < Len(its) THEN its[i + 1] ELSE Nil) ELSE sl.elems[i + 1]

\* the slots of the slice sl
SliceItems(sl, its) == [k \in 1..Len(sl.elems) |-> SliceLoad(sl, its, k - 1)]

\* sl[i] = a: the slice and h.items after the store
SliceStore(sl, its, i, a) ==
    IF sl.alias
    THEN [snap |-> sl, items |-> IF i < Len(its) THEN [its EXCEPT ![i + 1] = a] ELSE its]
    ELSE [snap |-> [sl EXCEPT !.elems[i + 1] = a], items |-> its]

\* GetItems, the caller keeping the slice it returns
GetItemsKeep ==
    /\ ~panicked /\ IsIntHeap /\ ~snap.held
    /\ snap' = GetItemsSlice(items)
    /\ last' = Ret("GetItems", "nil", Nil, Len(GetItemsResult(items)))
    /\ UNCHANGED <<items, mem, cmpFn, now, nInsert, nPopOk, drained, batch, panicked>>
    /\ UNCHANGED thrVars
    /\ UNCHANGED boxVars

\* the caller reorders the slice it holds: s[i], s[j] = s[j], s[i]
CallerSwap(i, j) ==
    /\ ~panicked /\ snap.held /\ calls < MaxCallerOps
    /\ i < j /\ j < Len(snap.elems)
    /\ LET r == SliceStore(snap, items, i, SliceLoad(snap, items, j)) IN
       LET q == SliceStore(r.snap, r.items, j, SliceLoad(snap, items, i)) IN
         snap' = q.snap /\ items' = q.items
    /\ calls' = calls + 1
    /\ UNCHANGED <<mem, cmpFn, now, last, nInsert, nPopOk, drained, batch, panicked,
                   mu, pc, loc>>
    /\ UNCHANGED boxVars

\* the caller overwrites a slot of the slice it holds: s[i] = nil
CallerOverwrite(i) ==
    /\ ~panicked /\ snap.held /\ calls < MaxCallerOps
    /\ i < Len(snap.elems)
    /\ LET r == SliceStore(snap, items, i, Nil) IN
         snap' = r.snap /\ items' = r.items
    /\ calls' = calls + 1
    /\ UNCHANGED <<mem, cmpFn, now, last, nInsert, nPopOk, drained, batch, panicked,
                   mu, pc, loc>>
    /\ UNCHANGED boxVars

\* the caller truncates the slice it holds: s = s[:k]
CallerTruncate(k) ==
    /\ ~panicked /\ snap.held /\ calls < MaxCallerOps
    /\ k < Len(snap.elems)
    /\ snap' = [snap EXCEPT !.elems = SubSeq(@, 1, k)]
    /\ calls' = calls + 1
    /\ UNCHANGED <<items, mem, cmpFn, now, last, nInsert, nPopOk, drained, batch, panicked,
                   mu, pc, loc>>
    /\ UNCHANGED boxVars

\* a Heap of ints and a caller who holds a slice returned by GetItems
NextSnap ==
    \/ \E v \in Values : Insert(v)
    \/ Pop
    \/ \E i \in Indices : UpHeap(i)
    \/ \E i \in Indices : DownHeap(i)
    \/ GetItemsKeep
    \/ \E i, j \in 0..(MaxInserts - 1) : CallerSwap(i, j)
    \/ \E i \in 0..(MaxInserts - 1) : CallerOverwrite(i)
    \/ \E k \in 0..(MaxInserts - 1) : CallerTruncate(k)

SpecSnap == InitHeap /\ [][NextSnap]_vars

\* ------------------------------------------------------------ BuildHeap and HeapSort
\* The caller's slice arr []T is mem: its element k-1 has the address k.  The
\* slice sort.HeapSort returns is made by fromPointerSlice: its elements get
\* fresh addresses at the end of mem, and the slice is its first address and
\* its length.
MaxLen == 5

MaxSortVal == 5

MaxSorts == 2

SortValues == 1..MaxSortVal

\* the loop of BuildHeap, from i down to 0; BuildHeapNext goes on after the
\* call r of downHeapWithSize
RECURSIVE BuildHeapLoop(_, _, _, _)
BuildHeapNext(m, r, i, size) ==
    IF r.panic THEN r ELSE BuildHeapLoop(m, r.items, i - 1, size)

BuildHeapLoop(m, its, i, size) ==
    IF i < 0 THEN Step(its, i, TRUE, FALSE)
    ELSE BuildHeapNext(m, downHeapWithSize(m, its, i, size), i, size)

\* BuildHeap with the last parent node left out
BuildHeapSkipsLastParent(m, arr) ==
    BuildHeapLoop(m, arr, GoDiv(Len(arr), 2) - 2, Len(arr))

\* BuildHeap(arr, cmpFn): the items of the heap it returns
BuildHeap(m, arr) ==
    BuildHeapLoop(m, arr, GoDiv(SizeResult(arr), 2) - 1, SizeResult(arr))

\* the loop of HeapSort, from i down to 1; HeapSortNext goes on after the
\* call r of downHeapWithSize
RECURSIVE HeapSortLoop(_, _, _, _)
HeapSortNext(m, r, i, heapSize) ==
    IF r.panic THEN r ELSE HeapSortLoop(m, r.items, i - 1, heapSize)

HeapSortLoop(m, its, i, heapSize) ==
    IF ~(i > 0) THEN Step(its, i, TRUE, FALSE)
    ELSE IF ~InRange(its, i) THEN Step(its, i, TRUE, TRUE)
    ELSE HeapSortNext(m, downHeapWithSize(m, swap(its, 0, i), 0, heapSize - 1),
                      i, heapSize - 1)

\* HeapSort after BuildMaxHeap returned the heap b
HeapSortBuilt(m, b) ==
    IF b.panic THEN b
    ELSE HeapSortLoop(m, b.items, SizeResult(b.items) - 1, SizeResult(b.items))

\* HeapSort with the heap not built: the loop runs on the input as it is
HeapSortNoBuild(m, arr) ==
    HeapSortLoop(m, arr, SizeResult(arr) - 1, SizeResult(arr))

\* heap.HeapSort(arr): the slice it returns (the heap is built with maxCmp)
HeapSort(m, arr) == HeapSortBuilt(m, BuildHeap(m, arr))

\* toPointerSlice of the slice of n elements at base: the addresses of its elements
toPointerSlice(base, n) == [i \in 1..n |-> base + i - 1]

\* fromPointerSlice: the values the pointers refer to
fromPointerSlice(m, ptrs) == [i \in 1..Len(ptrs) |-> m[ptrs[i]]]

\* sort.HeapSort after heap.HeapSort returned r, with the sorted values written
\* into the argument
SortHeapSortInPlace(m, base, r) ==
    [mem |-> [k \in 1..Len(m) |->
                IF base <= k /\ k < base + Len(r.items)
                THEN fromPointerSlice(m, r.items)[k - base + 1] ELSE m[k]],
     base |-> base, n |-> Len(r.items), err |-> "nil", panic |-> r.panic]

\* sort.HeapSort after heap.HeapSort returned r: [mem, base, n, err, panic], the
\* returned slice being the n elements at base of mem
SortHeapSortResult(m, base, r) ==
    [mem |-> m \o fromPointerSlice(m, r.items), base |-> Len(m) + 1,
     n |-> Len(r.items), err |-> "nil", panic |-> r.panic]

\* sort.HeapSort of the slice of n elements at base
SortHeapSort(m, base, n) ==
    SortHeapSortResult(m, base, HeapSort(m, toPointerSlice(base, n)))

\* BuildHeap(arr, cmpFn) on the pointers to the caller's values
BuildHeapCall ==
    /\ ~panicked /\ IsIntHeap /\ last.op = "New"
    /\ LET r == BuildHeap(mem, toPointerSlice(1, Len(mem))) IN
         /\ items' = r.items
         /\ panicked' = r.panic
         /\ last' = Ret("BuildHeap", "nil", Nil, SizeResult(r.items))
    /\ UNCHANGED <<mem, cmpFn, now, nInsert, nPopOk, drained, batch>>
    /\ UNCHANGED thrVars
    /\ UNCHANGED snap
    /\ UNCHANGED boxVars

\* heap.HeapSort(arr) on the pointers to the caller's values
HeapSortCall ==
    /\ ~panicked /\ cmpFn = "maxCmp" /\ last.op = "New"
    /\ LET r == HeapSort(mem, toPointerSlice(1, Len(mem))) IN
         /\ items' = r.items
         /\ panicked' = r.panic
         /\ last' = Ret("heap.HeapSort", "nil", Nil, SizeResult(r.items))
    /\ UNCHANGED <<mem, cmpFn, now, nInsert, nPopOk, drained, batch>>
    /\ UNCHANGED thrVars
    /\ UNCHANGED snap
    /\ UNCHANGED boxVars

\* sort.HeapSort of the caller's slice, or of the slice the last call returned
SortHeapSortCall ==
    /\ ~panicked /\ cmpFn = "maxCmp" /\ last.op \in {"New", "sort.HeapSort"}
    /\ calls < MaxSorts
    /\ LET r == IF last.op = "New" THEN SortHeapSort(mem, 1, Len(mem))
                ELSE SortHeapSort(mem, last.item, last.n)
       IN  /\ mem' = r.mem
           /\ panicked' = r.panic
           /\ last' = Ret("sort.HeapSort", r.err, r.base, r.n)
    /\ calls' = calls + 1
    /\ UNCHANGED <<items, cmpFn, now, nInsert, nPopOk, drained, batch, mu, pc, loc>>
    /\ UNCHANGED snap
    /\ UNCHANGED boxVars

\* the caller's slice: any values, any length up to MaxLen
InitSort ==
    /\ items = <<>>
    /\ mem \in UNION {[1..n -> SortValues] : n \in 0..MaxLen}
    /\ cmpFn \in {"maxCmp", "minCmp"}
    /\ now = 0
    /\ last = Ret("New", "nil", Nil, 0)
    /\ nInsert = 0
    /\ nPopOk = 0
    /\ drained = <<>>
    /\ batch = {}
    /\ panicked = FALSE
    /\ mu = NoLock
    /\ pc = [t \in Threads |-> "idle"]
    /\ loc = [t \in Threads |-> NoLoc]
    /\ calls = 0
    /\ snap = NoSlice
    /\ queue = NewQueue(1)
    /\ stack = NewStack(1)
    /\ hist = NoHist

NextSort ==
    \/ BuildHeapCall
    \/ HeapSortCall
    \/ SortHeapSortCall

SpecSort == InitSort /\ [][NextSort]_vars

\* ------------------------------------------------------------ BuildHeap and HeapSort, loop by loop
\* the goroutine that calls BuildHeap or HeapSort
SortCaller == 1

\* BuildHeap(arr, cmpFn) is entered, by its caller or by HeapSort through
\* BuildMaxHeap: heap.items = arr, size := heap.Size(), i := size/2 - 1
EnterBuildHeap(name) ==
    /\ ~panicked /\ IsIntHeap /\ last.op = "New" /\ pc[SortCaller] = "idle"
    /\ name = "heap.HeapSort" => cmpFn = "maxCmp"
    /\ items' = toPointerSlice(1, Len(mem))
    /\ loc' = [loc EXCEPT ![SortCaller] =
                 [NoLoc EXCEPT !.op = name, !.size = SizeResult(items'),
                               !.index = GoDiv(SizeResult(items'), 2) - 1]]
    /\ Goto(SortCaller, "BuildHeap.loop")
    /\ UNCHANGED <<mem, cmpFn, now, last, nInsert, nPopOk, drained, batch, panicked,
                   mu, calls>>
    /\ UNCHANGED snap
    /\ UNCHANGED boxVars

\* one iteration of BuildHeap's loop: heap.downHeapWithSize(i, size); i--
BuildHeapIter ==
    /\ ~panicked /\ pc[SortCaller] = "BuildHeap.loop" /\ loc[SortCaller].index >= 0
    /\ LET r == downHeapWithSize(mem, items, loc[SortCaller].index, loc[SortCaller].size) IN
         /\ items' = r.items
         /\ panicked' = r.panic
    /\ loc' = [loc EXCEPT ![SortCaller].index = @ - 1]
    /\ UNCHANGED <<mem, cmpFn, now, last, nInsert, nPopOk, drained, batch, mu, pc, calls>>
    /\ UNCHANGED snap
    /\ UNCHANGED boxVars

\* BuildHeap's loop ends: it returns the heap, to its caller or to HeapSort,
\* which goes on with heapSize := heap.Size(), i := heapSize - 1
BuildHeapExit ==
    /\ ~panicked /\ pc[SortCaller] = "BuildHeap.loop" /\ ~(loc[SortCaller].index >= 0)
    /\ IF loc[SortCaller].op = "BuildHeap"
       THEN Return(SortCaller, "BuildHeap", "nil", Nil, SizeResult(items))
       ELSE /\ loc' = [loc EXCEPT ![SortCaller].heapSize = SizeResult(items),
                                   ![SortCaller].index = SizeResult(items) - 1]
            /\ Goto(SortCaller, "HeapSort.loop")
            /\ UNCHANGED last
    /\ UNCHANGED <<items, mem, cmpFn, now, nInsert, nPopOk, drained, batch, panicked,
                   mu, calls>>
    /\ UNCHANGED snap
    /\ UNCHANGED boxVars

\* one iteration of HeapSort's loop: heap.swap(0, i); heapSize--;
\* heap.downHeapWithSize(0, heapSize); i--
HeapSortIter ==
    /\ ~panicked /\ pc[SortCaller] = "HeapSort.loop" /\ loc[SortCaller].index > 0
    /\ LET r == downHeapWithSize(mem, swap(items, 0, loc[SortCaller].index), 0,
                                 loc[SortCaller].heapSize - 1) IN
         /\ items' = r.items
         /\ panicked' = r.panic
    /\ loc' = [loc EXCEPT ![SortCaller].heapSize = @ - 1, ![SortCaller].index = @ - 1]
    /\ UNCHANGED <<mem, cmpFn, now, last, nInsert, nPopOk, drained, batch, mu, pc, calls>>
    /\ UNCHANGED snap
    /\ UNCHANGED boxVars

\* HeapSort's loop ends: return heap.items
HeapSortExit ==
    /\ ~panicked /\ pc[SortCaller] = "HeapSort.loop" /\ ~(loc[SortCaller].index > 0)
    /\ Return(SortCaller, "heap.HeapSort", "nil", Nil, SizeResult(items))
    /\ UNCHANGED <<items, mem, cmpFn, now, nInsert, nPopOk, drained, batch, panicked,
                   mu, calls>>
    /\ UNCHANGED snap
    /\ UNCHANGED boxVars

NextSortSteps ==
    \/ \E name \in {"BuildHeap", "heap.HeapSort"} : EnterBuildHeap(name)
    \/ BuildHeapIter
    \/ BuildHeapExit
    \/ HeapSortIter
    \/ HeapSortExit

\* BuildHeap or HeapSort on a caller's slice, one loop iteration per step
SpecSortSteps == InitSort /\ [][NextSortSteps]_vars

\* a Queue made by NewQueue(n), one caller
InitQueue ==
    /\ items = <<>>
    /\ mem = <<>>
    /\ cmpFn = "maxCmp"
    /\ now = 0
    /\ last = Ret("New", "nil", Nil, 0)
    /\ nInsert = 0
    /\ nPopOk = 0
    /\ drained = <<>>
    /\ batch = {}
    /\ panicked = FALSE
    /\ mu = NoLock
    /\ pc = [t \in Threads |-> "idle"]
    /\ loc = [t \in Threads |-> NoLoc]
    /\ calls = 0
    /\ snap = NoSlice
    /\ queue \in {NewQueue(n) : n \in 1..MaxCap}
    /\ stack = NewStack(1)
    /\ hist = NoHist

NextQueue ==
    \/ \E item \in ItemPtrs \cup {Nil} : Enqueue(item)
    \/ Dequeue
    \/ QueuePeek
    \/ QueueIsEmptyCall
    \/ QueueIsFullCall

SpecQueue == InitQueue /\ [][NextQueue]_vars

\* a Stack made by NewStack(n), one caller
InitStack ==
    /\ items = <<>>
    /\ mem = <<>>
    /\ cmpFn = "maxCmp"
    /\ now = 0
    /\ last = Ret("New", "nil", Nil, 0)
    /\ nInsert = 0
    /\ nPopOk = 0
    /\ drained = <<>>
    /\ batch = {}
    /\ panicked = FALSE
    /\ mu = NoLock
    /\ pc = [t \in Threads |-> "idle"]
    /\ loc = [t \in Threads |-> NoLoc]
    /\ calls = 0
    /\ snap = NoSlice
    /\ queue = NewQueue(1)
    /\ stack \in {NewStack(n) : n \in 1..MaxCap}
    /\ hist = NoHist

NextStack ==
    \/ \E item \in ItemPtrs \cup {Nil} : Push(item)
    \/ StackPop
    \/ StackPeek

SpecStack == InitStack /\ [][NextStack]_vars

\* ------------------------------------------------------------ properties
\* no child precedes its parent under the comparator
HeapPropertyOf(m, its) ==
    \A i \in 1..(Len(its) - 1) : Cmp(m, its[Parent(i) + 1], its[i + 1]) >= 0

\* C1: after any sequence of Insert, Pop, UpHeap(i) and DownHeap(i) on a heap
\* that started empty, cmpFn(items[Parent(i)], items[i]) >= 0 for every
\* non-root slot i, under maxCmp and under minCmp.
C1_HeapProperty == IsIntHeap => HeapPropertyOf(mem, items)

C1_Witness ==
    /\ cmpFn = "minCmp" /\ ~panicked
    /\ last.op \in {"UpHeap", "DownHeap"}
    /\ nPopOk >= 1 /\ Len(items) >= 3
    /\ mem[items[1]] < mem[items[2]] /\ mem[items[1]] < mem[items[3]]

\* C2: the Pops of a drain return the elements in the comparator's order:
\* non-increasing under maxCmp, non-decreasing under minCmp; no remaining
\* element precedes a returned one; and the drain returns each element the
\* heap held exactly once.
C2_PopOrdering ==
    IsIntHeap =>
        /\ \A i, j \in 1..Len(drained) : i < j =>
              /\ cmpFn = "maxCmp" => mem[drained[i]] >= mem[drained[j]]
              /\ cmpFn = "minCmp" => mem[drained[i]] <= mem[drained[j]]
        /\ \A i \in 1..Len(drained), k \in 1..Len(items) :
              /\ cmpFn = "maxCmp" => mem[drained[i]] >= mem[items[k]]
              /\ cmpFn = "minCmp" => mem[drained[i]] <= mem[items[k]]
              /\ Cmp(mem, drained[i], items[k]) >= 0
        /\ Range(drained) \cup Range(items) = batch
        /\ Len(drained) + Len(items) = Cardinality(batch)

C2_Witness ==
    /\ cmpFn = "maxCmp" /\ ~panicked
    /\ items = <<>> /\ Len(drained) = MaxInserts
    /\ mem[drained[1]] > mem[drained[Len(drained)]]
    /\ mem[1] < mem[3] /\ mem[2] > mem[3]

\* C3: on an empty heap Heap.Pop, Heap.Peek and PriorityQueue.Pop return
\* ErrorIsEmpty with a nil item and leave the heap empty and unchanged; an
\* ErrorIsEmpty is returned only by a call on an empty heap, and a call that
\* succeeds returns an item.
C3_EmptyContract ==
    /\ items = <<>> =>
          /\ PopResult(mem, items) =
                [err |-> "ErrorIsEmpty", item |-> Nil, items |-> <<>>, panic |-> FALSE]
          /\ PeekResult(items) = [err |-> "ErrorIsEmpty", item |-> Nil]
    /\ last.op \in {"Pop", "Peek", "PQPop"} =>
          /\ last.err = "ErrorIsEmpty" => (items = <<>> /\ last.item = Nil)
          /\ last.err = "nil" => last.item # Nil
          /\ last.err \in {"ErrorIsEmpty", "nil"}

C3_Witness ==
    /\ last.op \in {"Pop", "PQPop"} /\ last.err = "ErrorIsEmpty"
    /\ nInsert >= 2 /\ nPopOk = nInsert /\ items = <<>>

\* C4: Size() is the number of Inserts minus the number of Pops that returned
\* without error, and UpHeap, DownHeap, Peek, GetItems, Size and a failed Pop
\* leave it as it was.
C4_SizeState ==
    /\ SizeResult(items) = nInsert - nPopOk
    /\ last.op \in {"Size", "GetItems"} => last.n = nInsert - nPopOk

C4_SizeFrame ==
    (\/ last'.op \in {"UpHeap", "DownHeap", "Peek", "GetItems", "Size"}
     \/ (last'.op = "Pop" /\ last'.err # "nil"))
    => SizeResult(items') = SizeResult(items)

C4_Size == [](C4_SizeState) /\ [][C4_SizeFrame]_vars

C4_Witness ==
    /\ last.op = "Size" /\ last.n = 2 /\ nInsert = MaxInserts /\ nPopOk = nInsert - 2

\* the tasks of the current drain: those in the queue and those popped from it
DrainTasks == Range(items) \cup Range(drained)

DistinctTimes == \A a, b \in DrainTasks : a # b => mem[a].Time # mem[b].Time

DistinctPayloads == \A a, b \in DrainTasks : a # b => mem[a].Value # mem[b].Value

\* task a is served before task b: higher priority, or the same priority and
\* created (and inserted) earlier
ServedBefore(a, b) ==
    \/ mem[a].Priority > mem[b].Priority
    \/ (mem[a].Priority = mem[b].Priority /\ mem[a].Time < mem[b].Time /\ a < b)

\* C5: for a PriorityQueue under PriorityCmp whose tasks have pairwise distinct
\* creation markers, the Pops of a drain return the tasks by priority
\* descending and, within a priority, by creation order ascending.
C5_DrainOrder ==
    (IsPQ /\ DistinctTimes) =>
        /\ \A i, j \in 1..Len(drained) : i < j => ServedBefore(drained[i], drained[j])
        /\ \A i \in 1..Len(drained), k \in 1..Len(items) :
              ServedBefore(drained[i], items[k])

C5_Witness ==
    /\ IsPQ /\ DistinctTimes /\ items = <<>> /\ Len(drained) = MaxTasks
    /\ mem[drained[1]].Priority > mem[drained[2]].Priority
    /\ mem[drained[2]].Priority = mem[drained[3]].Priority
    /\ drained[1] = 3

\* C6: after any sequence of Updates the heap property holds under PriorityCmp,
\* an Update that succeeds leaves the first task with that payload at priority
\* p with the heap property restored, and a drain returns every task exactly
\* once in descending order of its current priority.
C6_UpdateCorrect ==
    IsPQ =>
        /\ HeapPropertyOf(mem, items)
        /\ \A v \in Payloads, p \in Priorities :
              LET r == UpdateResult(mem, items, v, p) IN
              r.err = "nil" =>
                  /\ r.mem[r.target].Priority = p
                  /\ r.mem[r.target].Value = v
                  /\ HeapPropertyOf(r.mem, r.items)
                  /\ Range(r.items) = Range(items) /\ Len(r.items) = Len(items)
                  /\ ~r.panic
        /\ \A i, j \in 1..Len(drained) : i < j =>
              mem[drained[i]].Priority >= mem[drained[j]].Priority
        /\ \A i \in 1..Len(drained), k \in 1..Len(items) :
              mem[drained[i]].Priority >= mem[items[k]].Priority
        /\ Range(drained) \cup Range(items) = batch
        /\ Len(drained) + Len(items) = Cardinality(batch)

\* an Update has just raised a task from priority 1, below two tasks of
\* priority 2, to priority 3 and the task is now the root
C6_Witness ==
    /\ IsPQ /\ DistinctPayloads /\ ~panicked
    /\ last.op = "Update" /\ last.err = "nil" /\ last.n = 1
    /\ Len(items) = 3 /\ items[1] = last.item
    /\ mem[items[1]].Priority = 3
    /\ mem[items[2]].Priority = 2 /\ mem[items[3]].Priority = 2

\* no task of the queue has payload v
Missing(v) == \A k \in 1..Len(items) : mem[items[k]].Value # v

\* C7: Update(value, p) with no task of payload value in the queue returns
\* ErrNotFound and leaves the backing sequence and every task as they were.
C7_UpdateMissingState ==
    IsPQ =>
        /\ \A v \in Payloads, p \in Priorities :
              Missing(v) =>
                  LET r == UpdateResult(mem, items, v, p) IN
                  /\ r.err = "ErrNotFound" /\ r.target = Nil /\ r.old = 0
                  /\ r.items = items /\ r.mem = mem /\ ~r.panic
        /\ (last.op = "Update" /\ last.err = "ErrNotFound") => last.item = Nil

C7_UpdateMissingStep ==
    \A v \in Payloads, p \in Priorities :
        (Missing(v) /\ PQUpdate(v, p)) =>
            (last'.err = "ErrNotFound" /\ items' = items /\ mem' = mem)

C7_UpdateMissing == [](C7_UpdateMissingState) /\ [][C7_UpdateMissingStep]_vars

C7_Witness ==
    /\ last.op = "Update" /\ last.err = "ErrNotFound"
    /\ Len(items) = 2 /\ nInsert = 2
    /\ mem[items[1]].Priority > mem[items[2]].Priority

\* the goroutines that are in Update between its scan and the start of the
\* re-sift it asks for
InUpdate(t) == loc[t].op = "Update" /\ pc[t] \in
    {"Update.check", "Update.toLargerThan", "Update.toLessThan", "Update.write",
     "UpHeap.lock", "DownHeap.lock", "UpHeap.check", "DownHeap.enter"}

\* C8: no Insert, Pop or Update of another goroutine takes effect between
\* Update's scan, its write of the priority and its re-sift: from the scan to
\* the start of the re-sift the slot found by the scan still holds the target.
C8_UpdateAtomic ==
    \A t \in Threads :
        InUpdate(t) =>
            /\ InRange(items, loc[t].targetIdx)
            /\ items[loc[t].targetIdx + 1] = loc[t].targetTask

\* C9: goroutines calling Insert and Pop on a shared Heap: no call panics, and
\* once all calls have returned the heap property holds and the size is the
\* number of Inserts minus the number of Pops that returned without error.
C9_ConcurrentInsertPop ==
    /\ ~panicked
    /\ Quiescent =>
          /\ HeapPropertyOf(mem, items)
          /\ SizeResult(items) = nInsert - nPopOk

\* a Pop waits for the lock while an Insert is in its sift loop
C9_Witness ==
    /\ IsIntHeap
    /\ \E t, u \in Threads :
          /\ pc[t] = "Insert.upHeap" /\ loc[t].index = 0
          /\ pc[u] = "Pop.lock"
    /\ Len(items) = 3 /\ nInsert = 2

\* C10: goroutines calling Update, Insert and Pop on a shared PriorityQueue:
\* once all calls have returned the heap property holds under PriorityCmp.
C10_QuiescentHeapProperty ==
    (IsPQ /\ Quiescent /\ ~panicked) => HeapPropertyOf(mem, items)

\* where a goroutine is between h.mu.Lock() and the deferred h.mu.Unlock()
WritePcs ==
    {"Insert.append", "Insert.upHeap", "Insert.unlock",
     "Pop.remove", "Pop.downHeap", "Pop.unlock",
     "UpHeap.check", "UpHeap.upHeap", "UpHeap.unlock",
     "DownHeap.enter", "DownHeap.downHeap", "DownHeap.unlock"}

\* where a goroutine is between h.mu.RLock() and the deferred h.mu.RUnlock()
ReadPcs ==
    {"GetItems.copy", "GetItems.runlock", "Peek.read", "Peek.runlock",
     "Size.read", "Size.runlock"}

\* C11: Insert, Pop, UpHeap and DownHeap hold the exclusive lock from before
\* their first access to the slice until their sift loop has finished, and
\* Peek, Size and GetItems hold the shared lock for their read: no two
\* mutating calls are inside the slice at once, no reader runs while a
\* mutating call is in progress, and the slice changes only under the lock.
C11_LockState ==
    /\ \A t \in Threads : (pc[t] \in WritePcs) <=> (mu.writer = t)
    /\ \A t \in Threads : (pc[t] \in ReadPcs) <=> (t \in mu.readers)
    /\ \A t, u \in Threads :
          (t # u /\ pc[t] \in WritePcs) => pc[u] \notin (WritePcs \cup ReadPcs)

C11_LockStep ==
    (items' # items) =>
        \E t \in Threads :
            /\ mu.writer = t /\ mu.readers = {}
            /\ pc[t] \in WritePcs
            /\ \A u \in Threads : u # t => (pc'[u] = pc[u] /\ loc'[u] = loc[u])

C11_LockDiscipline == [](C11_LockState) /\ [][C11_LockStep]_vars

\* a Size waits for the lock while an Insert, which has sifted its item up to
\* the root, is still in its sift loop
C11_Witness ==
    \E t, u \in Threads :
        /\ pc[t] = "Insert.upHeap" /\ loc[t].index = 0 /\ Len(items) = 2
        /\ mu.writer = t
        /\ pc[u] = "Size.rlock"

\* the values of the caller's slice are those of the pointers its, one for one
PermutationOf(its, n) == Len(its) = n /\ Range(its) = 1..n

\* C12: for every input (empty, one element, duplicates) BuildHeap yields a heap
\* whose items are a permutation of the input, that satisfies the heap property
\* at every internal node, and whose root is the maximum under maxCmp
\* (BuildMaxHeap) and the minimum under minCmp (BuildMinHeap).
C12_BuildHeap ==
    last.op = "BuildHeap" =>
        /\ ~panicked
        /\ PermutationOf(items, Len(mem)) /\ last.n = Len(mem)
        /\ HeapPropertyOf(mem, items)
        /\ \A k \in 1..Len(mem) :
              /\ cmpFn = "maxCmp" => mem[items[1]] >= mem[k]
              /\ cmpFn = "minCmp" => mem[items[1]] <= mem[k]

\* BuildMaxHeap of five values with the largest last and a duplicate
C12_Witness ==
    /\ last.op = "BuildHeap" /\ cmpFn = "maxCmp"
    /\ mem = <<1, 3, 2, 3, 5>>
    /\ mem[items[1]] = 5 /\ items # toPointerSlice(1, 5)

\* how many of the n elements at base of m are v
Count(m, base, n, v) == Cardinality({k \in base..(base + n - 1) : m[k] = v})

\* the length of the caller's slice: every sort.HeapSort added as many elements
InputLen == Len(mem) \div (1 + calls)

\* C13: for every input (empty, one element, sorted, reverse sorted, with
\* duplicates) HeapSort returns a sequence of the same length that is a
\* permutation of the input and is in ascending order: heap.HeapSort as
\* pointers, sort.HeapSort as values.
C13_HeapSort ==
    /\ last.op = "heap.HeapSort" =>
          /\ ~panicked
          /\ PermutationOf(items, Len(mem)) /\ last.n = Len(mem)
          /\ \A i, j \in 1..Len(items) : i < j => mem[items[i]] <= mem[items[j]]
    /\ last.op = "sort.HeapSort" =>
          /\ ~panicked /\ last.err = "nil"
          /\ last.n = InputLen
          /\ last.item + last.n - 1 <= Len(mem)
          /\ \A v \in SortValues :
                Count(mem, last.item, last.n, v) = Count(mem, 1, InputLen, v)
          /\ \A i, j \in 0..(last.n - 1) :
                i < j => mem[last.item + i] <= mem[last.item + j]

\* sort.HeapSort of 3, 1, 4, 1, 5 returned 1, 1, 3, 4, 5
C13_Witness ==
    /\ last.op = "sort.HeapSort" /\ calls = 1
    /\ mem = <<3, 1, 4, 1, 5, 1, 1, 3, 4, 5>>
    /\ last.item = 6 /\ last.n = 5

\* C14: HeapSort(HeapSort(x)) equals HeapSort(x) element for element.
C14_Idempotent ==
    /\ last.op = "heap.HeapSort" =>
          fromPointerSlice(mem, HeapSort(mem, items).items) = fromPointerSlice(mem, items)
    /\ (last.op = "sort.HeapSort" /\ calls = 2) =>
          \A i \in 0..(last.n - 1) : mem[last.item + i] = mem[last.item - last.n + i]

\* the result of sorting 2, 5, 2, 4, 1 has been sorted again
C14_Witness ==
    /\ last.op = "sort.HeapSort" /\ calls = 2 /\ Len(mem) = 15
    /\ SubSeq(mem, 1, 5) = <<2, 5, 2, 4, 1>>
    /\ SubSeq(mem, 11, 15) = <<1, 2, 2, 4, 5>>

\* C15: sort.HeapSort leaves its argument untouched: after the call every
\* element that existed before holds the value it held, and the slice
\* returned is made of new elements.
C15_ArgumentStep ==
    (last'.op = "sort.HeapSort" /\ calls' # calls) =>
        /\ Len(mem') >= Len(mem)
        /\ \A k \in 1..Len(mem) : mem'[k] = mem[k]
        /\ last'.item > Len(mem)
        /\ Len(mem') = Len(mem) + last'.n

C15_ArgumentUntouched == [][C15_ArgumentStep]_vars

\* sort.HeapSort of 5, 4, 3, 2, 1 returned: the argument still reads 5, 4, 3, 2, 1
C15_Witness ==
    /\ last.op = "sort.HeapSort" /\ calls = 1 /\ Len(mem) = 10
    /\ SubSeq(mem, 1, 5) = <<5, 4, 3, 2, 1>>
    /\ SubSeq(mem, 6, 10) = <<1, 2, 3, 4, 5>>

\* the indices a caller passes that are negative or >= Size()
OutOfRange == {i \in Indices : i < 0 \/ i >= SizeResult(items)}

\* C16: for every index that is negative or >= Size(), UpHeap(index) and
\* DownHeap(index) return without panicking and leave the slice as it was.
C16_OutOfRangeStep ==
    \A i \in OutOfRange :
        (UpHeap(i) \/ DownHeap(i)) => (~panicked' /\ items' = items)

C16_OutOfRangeNoOp == [][C16_OutOfRangeStep]_vars

\* C17: GetItems returns a copy of the slot sequence: reordering, overwriting
\* or truncating the returned sequence never changes what later Peek, Pop or
\* GetItems calls return, and later Insert, Pop, UpHeap and DownHeap calls
\* never change the slots of a sequence that was returned earlier.
C17_CopyStep ==
    /\ (~snap.held /\ snap'.held) => SliceItems(snap', items') = items
    /\ (snap.held /\ calls' # calls) =>
          /\ items' = items
          /\ PeekResult(items') = PeekResult(items)
          /\ PopResult(mem', items') = PopResult(mem, items)
          /\ GetItemsResult(items') = GetItemsResult(items)
    /\ (snap.held /\ calls' = calls) => SliceItems(snap', items') = SliceItems(snap, items)

C17_DefensiveCopy == [][C17_CopyStep]_vars

\* the caller holds a slice of three slots that it has reordered, and the
\* root it showed has since been popped
C17_Witness ==
    /\ snap.held /\ Len(snap.elems) = 3 /\ calls >= 1
    /\ last.op = "Pop" /\ Len(items) = 2
    /\ snap.elems[1] \in Range(items)
    /\ \E k \in 2..3 : snap.elems[k] \notin Range(items) /\ snap.elems[k] # Nil

ReadOps == {"Peek", "Size", "GetItems"}

\* C18: Peek, Size and GetItems never modify the heap; on a non-empty heap Peek
\* returns the item in slot 0, the one Pop would return next; and concurrent
\* Peek, Size and GetItems calls all return the root, the size and the
\* sequence of the heap as it is while they run.
C18_ReadState ==
    /\ \A t \in Threads :
          /\ pc[t] = "Peek.runlock" =>
                /\ loc[t].err = (IF Len(items) = 0 THEN "ErrorIsEmpty" ELSE "nil")
                /\ Len(items) > 0 =>
                      (loc[t].top = items[1] /\ loc[t].top = PopResult(mem, items).item)
          /\ pc[t] = "Size.runlock" => loc[t].size = Len(items)
          /\ pc[t] = "GetItems.runlock" => loc[t].copy = items
    /\ \A t, u \in Threads :
          (pc[t] = "GetItems.runlock" /\ pc[u] = "Size.runlock") =>
              Len(loc[t].copy) = loc[u].size

C18_ReadStep ==
    (\E t \in Threads : pc'[t] # pc[t] /\ (loc[t].op \in ReadOps \/ loc'[t].op \in ReadOps))
    => (items' = items /\ mem' = mem /\ cmpFn' = cmpFn)

C18_ReadOnly == [](C18_ReadState) /\ [][C18_ReadStep]_vars

\* a Peek and a GetItems hold the shared lock together, both having read a
\* heap of two items
C18_Witness ==
    \E t, u \in Threads :
        /\ pc[t] = "Peek.runlock" /\ pc[u] = "GetItems.runlock"
        /\ mu.readers = {t, u}
        /\ Len(items) = 2 /\ loc[t].top = loc[u].copy[1]

\* C19: for a PriorityQueue built with the min-priority comparator minHeapCmp,
\* after any successful Update the heap property holds under that comparator
\* and a drain returns the tasks by ascending priority.
C19_MinUpdate ==
    cmpFn = "minHeapCmp" =>
        /\ HeapPropertyOf(mem, items)
        /\ \A i, j \in 1..Len(drained) : i < j =>
              mem[drained[i]].Priority <= mem[drained[j]].Priority
        /\ \A i \in 1..Len(drained), k \in 1..Len(items) :
              mem[drained[i]].Priority <= mem[items[k]].Priority

\* the first task whose payload is v has priority p
FirstHasPriority(v, p) ==
    /\ ScanFirst(mem, items, v) # -1
    /\ mem[items[ScanFirst(mem, items, v) + 1]].Priority = p

\* C20: if the first task whose payload equals value already has priority p,
\* Update(value, p) returns nil, calls neither UpHeap nor DownHeap, and leaves
\* every slot of the slice and every task field unchanged.
C20_UpdateSameState ==
    IsPQ =>
        \A v \in Payloads, p \in Priorities :
            FirstHasPriority(v, p) =>
                LET r == UpdateResult(mem, items, v, p) IN
                /\ r.err = "nil" /\ ~r.changed /\ ~r.panic
                /\ r.target = items[ScanFirst(mem, items, v) + 1] /\ r.old = p
                /\ r.items = items /\ r.mem = mem

C20_UpdateSameStep ==
    \A v \in Payloads, p \in Priorities :
        (FirstHasPriority(v, p) /\ PQUpdate(v, p)) =>
            /\ last'.op = "Update" /\ last'.err = "nil" /\ last'.n = p
            /\ items' = items /\ mem' = mem
            /\ drained' = drained /\ batch' = batch /\ ~panicked'

C20_UpdateSame == [](C20_UpdateSameState) /\ [][C20_UpdateSameStep]_vars

\* in the middle of a drain, an Update to the priority a task of the queue
\* already has returned nil
C20_Witness ==
    /\ IsPQ /\ last.op = "Update" /\ last.err = "nil"
    /\ last.item \in Range(items) /\ mem[last.item].Priority = last.n
    /\ Len(drained) = 1 /\ Len(items) = 2

\* the slots (1-based) of the tasks whose payload is v
SlotsOf(v) == {i \in 1..Len(items) : mem[items[i]].Value = v}

\* C21: when several tasks share the payload value, Update(value, p) changes
\* the priority of one of them only, the one at the lowest index of the slice
\* at the time of the scan; every other task keeps its priority.
C21_UpdateDuplicates ==
    IsPQ =>
        \A v \in Payloads, p \in Priorities :
            SlotsOf(v) # {} =>
                LET r == UpdateResult(mem, items, v, p) IN
                \E i \in SlotsOf(v) :
                    /\ \A j \in SlotsOf(v) : i <= j
                    /\ r.err = "nil" /\ r.target = items[i]
                    /\ r.mem[items[i]].Priority = p
                    /\ \A k \in 1..Len(mem) :
                          k # items[i] => r.mem[k].Priority = mem[k].Priority

\* an Update changed the priority of one of two tasks with the same payload,
\* and the other one, still in the queue, has another priority
C21_Witness ==
    /\ IsPQ /\ last.op = "Update" /\ last.err = "nil"
    /\ last.n # mem[last.item].Priority
    /\ Len(items) = 3
    /\ \E a \in Range(items) :
          /\ a # last.item /\ mem[a].Value = mem[last.item].Value
          /\ mem[a].Priority # mem[last.item].Priority
          /\ mem[a].Priority # last.n

\* C22: a successful Update(value, p) changes only the priority field of the
\* target task: the creation marker and payload of every task, the priority
\* of every other task, the set of tasks stored and Size() are as before.
C22_UpdateFrameState ==
    IsPQ =>
        \A v \in Payloads, p \in Priorities :
            LET r == UpdateResult(mem, items, v, p) IN
            r.err = "nil" =>
                /\ Len(r.mem) = Len(mem)
                /\ \A k \in 1..Len(mem) :
                      /\ r.mem[k].Time = mem[k].Time
                      /\ r.mem[k].Value = mem[k].Value
                      /\ k # r.target => r.mem[k].Priority = mem[k].Priority
                /\ Range(r.items) = Range(items)
                /\ SizeResult(r.items) = SizeResult(items)

C22_UpdateFrameStep ==
    (last'.op = "Update" /\ last'.err = "nil" /\ now' = now /\ nInsert' = nInsert
        /\ nPopOk' = nPopOk) =>
        /\ Len(mem') = Len(mem)
        /\ \A k \in 1..Len(mem) :
              /\ mem'[k].Time = mem[k].Time /\ mem'[k].Value = mem[k].Value
              /\ k # last'.item => mem'[k].Priority = mem[k].Priority
        /\ Range(items') = Range(items) /\ SizeResult(items') = SizeResult(items)

C22_UpdateFrame == [](C22_UpdateFrameState) /\ [][C22_UpdateFrameStep]_vars

\* an Update lowered the root of three tasks from priority 3 to 1 and the
\* task left the root
C22_Witness ==
    /\ IsPQ /\ last.op = "Update" /\ last.err = "nil"
    /\ last.n = 3 /\ mem[last.item].Priority = 1
    /\ Len(items) = 3 /\ items[1] # last.item

\* C23: PriorityCmp is a total preorder with the max convention: it is 1 exactly
\* when a has the strictly higher priority, or the same priority and the strictly
\* earlier creation marker, -1 in the mirrored case and 0 exactly when priority
\* and marker are both equal; PriorityCmp(a,b) = -PriorityCmp(b,a), and it is
\* transitive.
C23_PriorityCmpOrder ==
    IsPQ =>
        \A p, q, r \in 1..Len(mem) :
            LET a == mem[p]
                b == mem[q]
                c == mem[r]
            IN  /\ PriorityCmp(a, b) \in {-1, 0, 1}
                /\ PriorityCmp(a, b) = 1 <=>
                      \/ a.Priority > b.Priority
                      \/ (a.Priority = b.Priority /\ a.Time < b.Time)
                /\ PriorityCmp(a, b) = -1 <=>
                      \/ a.Priority < b.Priority
                      \/ (a.Priority = b.Priority /\ a.Time > b.Time)
                /\ PriorityCmp(a, b) = 0 <=>
                      (a.Priority = b.Priority /\ a.Time = b.Time)
                /\ PriorityCmp(a, b) = 0 - PriorityCmp(b, a)
                /\ (PriorityCmp(a, b) >= 0 /\ PriorityCmp(b, c) >= 0) =>
                      PriorityCmp(a, c) >= 0
                /\ (PriorityCmp(a, b) > 0 /\ PriorityCmp(b, c) >= 0) =>
                      PriorityCmp(a, c) > 0

C23_Witness ==
    /\ IsPQ /\ Len(mem) = 3 /\ last.op = "PQInsert"
    /\ mem[1].Priority = mem[2].Priority /\ mem[1].Time = mem[2].Time
    /\ mem[1].Value # mem[2].Value
    /\ mem[3].Priority = mem[1].Priority /\ mem[3].Time > mem[1].Time
    /\ PriorityCmp(mem[1], mem[3]) = 1 /\ PriorityCmp(mem[1], mem[2]) = 0

\* C24: PriorityCmp returns a negative value if task a should come before task b
\* (a has the higher priority), a positive value if a should come after b (a has
\* the lower priority) and zero if priority and time are equal; with a
\* comparator that returns negative when a should come before b, Pop returns
\* the items in that order.
C24_DocumentedSign ==
    IsPQ =>
        /\ \A p, q \in 1..Len(mem) :
              /\ mem[p].Priority > mem[q].Priority => PriorityCmp(mem[p], mem[q]) < 0
              /\ mem[p].Priority < mem[q].Priority => PriorityCmp(mem[p], mem[q]) > 0
              /\ (mem[p].Priority = mem[q].Priority /\ mem[p].Time = mem[q].Time) =>
                    PriorityCmp(mem[p], mem[q]) = 0
        /\ \A i, j \in 1..Len(drained) :
              i < j => Cmp(mem, drained[i], drained[j]) <= 0

\* the largest index the index arithmetic is checked for
MaxIndex == 16

\* C25: for every index i >= 0, Left(i) = 2i+1, Right(i) = 2i+2,
\* Parent(Left(i)) = i and Parent(Right(i)) = i; for every i >= 1, Parent(i) is
\* (i-1)/2 rounded down and 0 <= Parent(i) < i.
C25_IndexArithmetic ==
    \A i \in 0..(MaxIndex + Len(items)) :
        /\ Left(i) = 2 * i + 1
        /\ Right(i) = 2 * i + 2
        /\ Parent(Left(i)) = i
        /\ Parent(Right(i)) = i
        /\ i >= 1 =>
              /\ 2 * Parent(i) <= i - 1
              /\ i - 1 < 2 * Parent(i) + 2
              /\ 0 <= Parent(i)
              /\ Parent(i) < i

C25_Witness ==
    /\ IsIntHeap /\ last.op = "Insert" /\ Len(items) = 4
    /\ Len(mem) = 4 /\ items[1] = 4 /\ items[2] = 1 /\ items[4] = 2
    /\ Parent(3) = 1 /\ Parent(1) = 0 /\ Left(1) = 3 /\ Right(0) = 2

IsPrefix(s, t) == Len(s) <= Len(t) /\ \A i \in 1..Len(s) : s[i] = t[i]

\* the number of items the Queue holds
Stored == Len(hist.in) - Len(hist.out)

\* C26: for a Queue of capacity n and any sequence of Enqueues and Dequeues of
\* non-nil items, head and tail wrapping around included, the i-th successful
\* Dequeue returns the item of the i-th successful Enqueue, and Peek returns
\* the item the next Dequeue will return and does not change the queue.
C26_FifoState ==
    ~hist.nilIn =>
        /\ IsPrefix(hist.out, hist.in)
        /\ ~QueueIsEmpty(queue) =>
              /\ Len(hist.out) < Len(hist.in)
              /\ DequeueResult(queue).err = "nil"
              /\ DequeueResult(queue).item = hist.in[Len(hist.out) + 1]
              /\ QueuePeekResult(queue).err = "nil"
              /\ QueuePeekResult(queue).item = DequeueResult(queue).item
              /\ QueuePeekResult(queue).q = queue

C26_FifoStep ==
    /\ (~hist.nilIn /\ Len(hist'.out) = Len(hist.out) + 1) =>
          last'.item = hist.in[Len(hist.out) + 1]
    /\ last'.op = "QueuePeek" => queue' = queue /\ hist' = hist

C26_Fifo == [](C26_FifoState) /\ [][C26_FifoStep]_vars

C26_Witness ==
    /\ ~hist.nilIn /\ queue.size = 2 /\ Len(hist.out) = 5
    /\ last.op = "Dequeue" /\ last.err = "nil" /\ last.item = 2
    /\ hist.in[4] = 1 /\ queue.head = 1 /\ queue.tail = 0

\* C27: a Queue made by NewQueue(n), n >= 1, accepts exactly n non-nil items;
\* IsFull is true exactly when n items are stored; Enqueue on a full queue
\* returns ErrorQueueOverflow and Dequeue or Peek on an empty queue returns
\* ErrorQueueUnderflow, and in each error case head, tail and the stored items
\* are unchanged.
C27_CapacityState ==
    ~hist.nilIn =>
        /\ queue.size >= 1 /\ Len(queue.items) = queue.size
        /\ 0 <= Stored /\ Stored <= queue.size
        /\ QueueIsFull(queue) <=> Stored = queue.size
        /\ QueueIsEmpty(queue) <=> Stored = 0
        /\ \A item \in ItemPtrs :
              LET r == EnqueueResult(queue, item) IN
              /\ Stored < queue.size => r.err = "nil"
              /\ Stored = queue.size => r.err = "ErrorQueueOverflow" /\ r.q = queue
        /\ Stored = 0 =>
              /\ DequeueResult(queue).err = "ErrorQueueUnderflow"
              /\ DequeueResult(queue).q = queue
              /\ QueuePeekResult(queue).err = "ErrorQueueUnderflow"
              /\ QueuePeekResult(queue).q = queue

C27_CapacityStep ==
    last'.err \in {"ErrorQueueOverflow", "ErrorQueueUnderflow"} =>
        queue' = queue /\ hist' = hist

C28_StackState ==
    /\ 0 <= stack.top /\ stack.top <= stack.size
    /\ stack.top = Len(hist.live)
    /\ \A item \in ItemPtrs \cup {Nil} :
          LET r == PushResult(stack, item) IN
          IF Len(hist.live) = stack.size
          THEN r.err = "ErrorStackOverflow" /\ r.s = stack
          ELSE r.err = "nil"
    /\ IF Len(hist.live) = 0
       THEN /\ StackPopResult(stack).err = "ErrorStackUnderflow"
            /\ StackPopResult(stack).s = stack
            /\ StackPeekResult(stack).err = "ErrorStackUnderflow"
       ELSE /\ StackPopResult(stack).err = "nil"
            /\ StackPopResult(stack).item = hist.live[Len(hist.live)]
            /\ StackPeekResult(stack).err = "nil"
            /\ StackPeekResult(stack).item = hist.live[Len(hist.live)]
    /\ StackPeekResult(stack).s = stack

C28_StackStep ==
    /\ Len(hist'.live) < Len(hist.live) => last'.item = hist.live[Len(hist.live)]
    /\ last'.err \in {"ErrorStackOverflow", "ErrorStackUnderflow"} =>
          stack' = stack /\ hist' = hist
    /\ last'.op = "StackPeek" => stack' = stack /\ hist' = hist

C28_Stack == [](C28_StackState) /\ [][C28_StackStep]_vars

C28_Witness ==
    /\ stack.size = 3 /\ stack.top = 3 /\ Len(hist.in) = 4
    /\ last.op = "Push" /\ last.err = "ErrorStackOverflow"
    /\ hist.live[3] = 2 /\ hist.live[2] = 1 /\ hist.in[3] = 1

\* the ordering keys an item can be given
Keys == IF IsPQ THEN Priorities ELSE Values

\* the store after the ordering key of the object at address a is set to k in place
Rekeyed(a, k) ==
    IF IsPQ THEN [mem EXCEPT ![a].Priority = k] ELSE [mem EXCEPT ![a] = k]

\* what one directed sift from slot i does after the key of the item there
\* became k: UpHeap(i) if that made it more eligible, DownHeap(i) if less
Repair(i, k) ==
    LET a == items[i + 1]
        m == Rekeyed(a, k)
    IN  IF Cmp([o |-> mem[a], n |-> m[a]], "n", "o") > 0
        THEN UpHeapItems(m, items, i)
        ELSE DownHeapItems(m, items, i)

RepairHolds(m, r) ==
    /\ ~r.panic
    /\ HeapPropertyOf(m, r.items)
    /\ Len(r.items) = Len(items)
    /\ Range(r.items) = Range(items)

\* C29: if the slice satisfies the heap property and then the ordering key of
\* exactly one item, at a valid index i, is changed in place, one UpHeap(i)
\* restores the heap property when the change made the item more eligible for
\* the root and one DownHeap(i) when it made it less eligible, and the items
\* after the call are a permutation of the items before it.
C29_DirectedRepair ==
    (~panicked /\ HeapPropertyOf(mem, items)) =>
        \A i \in 0..(Len(items) - 1), k \in Keys :
            LET a == items[i + 1]
                m == Rekeyed(a, k)
                c == Cmp([o |-> mem[a], n |-> m[a]], "n", "o")
            IN  /\ c > 0 => RepairHolds(m, UpHeapItems(m, items, i))
                /\ c < 0 => RepairHolds(m, DownHeapItems(m, items, i))

C29_Witness ==
    /\ ~panicked /\ HeapPropertyOf(mem, items) /\ Len(items) = 4
    /\ cmpFn = "minCmp" /\ last.op = "UpHeap"
    /\ Repair(3, 1).items[1] = items[4] /\ Repair(3, 1).items[4] = items[2]
    /\ Repair(0, 3).items[4] = items[1] /\ Repair(0, 3).items[1] = items[2]

\* C30: on a slice that satisfies the heap property UpHeap(i) and DownHeap(i)
\* perform no swap for any valid i; so for any interleaving of UpHeap, DownHeap,
\* Insert and Peek calls by several goroutines on a shared Heap, once all calls
\* have returned the heap property holds and the stored elements are exactly
\* those inserted.
C30_SiftState ==
    /\ ~panicked
    /\ HeapPropertyOf(mem, items) =>
          \A i \in ValidIndices :
              /\ UpHeapItems(mem, items, i).items = items
              /\ ~UpHeapItems(mem, items, i).panic
              /\ DownHeapItems(mem, items, i).items = items
              /\ ~DownHeapItems(mem, items, i).panic
    /\ Quiescent =>
          /\ HeapPropertyOf(mem, items)
          /\ Len(items) = nInsert /\ Len(mem) = nInsert
          /\ Range(items) = 1..nInsert

C30_SiftStep ==
    \A t \in Threads :
        (loc[t].op \in {"UpHeap", "DownHeap"} /\ pc'[t] # pc[t]) =>
            items' = items /\ mem' = mem

C30_ConcurrentSift == [](C30_SiftState) /\ [][C30_SiftStep]_vars

\* an UpHeap is in its loop at slot 1 while an Insert waits for the lock
C30_Witness ==
    /\ IsIntHeap /\ Len(items) = 2 /\ nInsert = 2 /\ calls = 4
    /\ \E t, u \in Threads :
          /\ pc[t] = "UpHeap.upHeap" /\ loc[t].index = 1
          /\ pc[u] = "Insert.lock"
    /\ last.op = "Insert" /\ mem[items[1]] = mem[items[2]]

\* C31: downHeapWithSize(index, heapSize) with 0 <= index and
\* heapSize <= len(items) never reads or writes a slot at an index >= heapSize;
\* so during HeapSort the suffix items[heapSize..] already placed is never
\* changed by the sift-down of the shrunken heap.
C31_BoundState ==
    (IsIntHeap /\ ~panicked) =>
        \A heapSize \in 0..Len(items), index \in 0..Len(items) :
            /\ ~downHeapWithSize(mem, items, index, heapSize).panic
            /\ downHeapSlots(mem, items, index, heapSize) \subseteq 0..(heapSize - 1)
            /\ \A k \in heapSize..(Len(items) - 1) :
                  downHeapWithSize(mem, items, index, heapSize).items[k + 1] = items[k + 1]

C31_BoundStep ==
    (pc[SortCaller] = "HeapSort.loop" /\ loc[SortCaller].index > 0) =>
        /\ loc'[SortCaller].heapSize = loc[SortCaller].heapSize - 1
        /\ \A k \in loc'[SortCaller].heapSize..(Len(items) - 1) :
              items'[k + 1] = swap(items, 0, loc[SortCaller].index)[k + 1]

C31_SiftBound == [](C31_BoundState) /\ [][C31_BoundStep]_vars

\* HeapSort has placed two items; the next sift-down has bound 2 and its right
\* child, slot 2, holds more than the root will
C31_Witness ==
    /\ pc[SortCaller] = "HeapSort.loop" /\ loc[SortCaller].heapSize = 3
    /\ Len(items) = 5 /\ mem[items[4]] < mem[items[5]]
    /\ mem[items[1]] > mem[items[3]] /\ mem[items[3]] >= mem[items[2]]
    /\ downHeapSlots(mem, swap(items, 0, 2), 0, 2) = {0, 1}

\* C32: in HeapSort, after BuildMaxHeap and after each iteration of the loop
\* for i from size-1 down to 1, the prefix items[0..heapSize-1] satisfies the
\* max-heap property, the suffix items[heapSize..size-1] is in ascending
\* order, and every item of the prefix is <= every item of the suffix.
C32_HeapSortLoop ==
    (pc[SortCaller] = "HeapSort.loop" /\ ~panicked) =>
        LET heapSize == loc[SortCaller].heapSize
            size == Len(items)
        IN  /\ cmpFn = "maxCmp" /\ size = Len(mem)
            /\ loc[SortCaller].index = heapSize - 1
            /\ 0 <= heapSize /\ heapSize <= size
            /\ \A k \in 1..(heapSize - 1) :
                  mem[items[Parent(k) + 1]] >= mem[items[k + 1]]
            /\ \A k \in heapSize..(size - 2) :
                  mem[items[k + 1]] <= mem[items[k + 2]]
            /\ \A j \in 0..(heapSize - 1), k \in heapSize..(size - 1) :
                  mem[items[j + 1]] <= mem[items[k + 1]]

C32_Witness ==
    /\ pc[SortCaller] = "HeapSort.loop" /\ ~panicked
    /\ Len(items) = 5 /\ loc[SortCaller].heapSize = 3
    /\ mem[items[1]] > mem[items[2]] /\ mem[items[2]] < mem[items[3]]
    /\ mem[items[1]] = mem[items[4]] /\ mem[items[4]] < mem[items[5]]
    /\ items[1] # 1

\* C39: in BuildHeap, which sifts down the indices from size/2 - 1 to 0 in
\* decreasing order with the full size as bound, after the sift-down of index i
\* every subtree rooted at an index >= i satisfies the heap property; indices
\* >= size/2 are leaves and are never sifted.
C39_BuildHeapLoop ==
    (pc[SortCaller] = "BuildHeap.loop" /\ ~panicked) =>
        LET i == loc[SortCaller].index + 1
            size == loc[SortCaller].size
        IN  /\ size = Len(items)
            /\ 0 <= i /\ i <= GoDiv(size, 2)
            /\ \A k \in 1..(size - 1) :
                  Parent(k) >= i => Cmp(mem, items[Parent(k) + 1], items[k + 1]) >= 0
            /\ \A j \in GoDiv(size, 2)..(size - 1) : Left(j) >= size

C39_Witness ==
    /\ pc[SortCaller] = "BuildHeap.loop" /\ ~panicked /\ cmpFn = "minCmp"
    /\ Len(items) = 5 /\ loc[SortCaller].index = 0
    /\ mem[items[1]] > mem[items[2]] /\ mem[items[2]] < mem[items[4]]
    /\ items[2] = 5 /\ items[5] = 2

\* how many slots of its hold an item of value v
ValCount(m, its, v) == Cardinality({i \in 1..Len(its) : m[its[i]] = v})

\* C33: after any single-threaded sequence of Insert, Pop, UpHeap and DownHeap
\* the multiset of items in the heap is the multiset of inserted items minus
\* that of the items returned by successful Pops; no item is duplicated or lost
\* by a swap, and a successful Pop removes exactly the item that was in slot 0.
C33_ConservationState ==
    IsIntHeap =>
        /\ Len(mem) = nInsert
        /\ Range(items) \subseteq 1..Len(mem)
        /\ Cardinality(Range(items)) = Len(items)
        /\ Len(items) = nInsert - nPopOk
        /\ Range(drained) \cap Range(items) = {}

C33_ConservationStep ==
    IsIntHeap =>
        /\ nInsert' = nInsert + 1 =>
              /\ SubSeq(mem', 1, Len(mem)) = mem /\ Len(mem') = Len(mem) + 1
              /\ Range(items') = Range(items) \cup {Len(mem')}
              /\ \A v \in Values :
                    ValCount(mem', items', v) =
                        ValCount(mem, items, v) + (IF mem'[Len(mem')] = v THEN 1 ELSE 0)
        /\ nPopOk' = nPopOk + 1 =>
              /\ mem' = mem
              /\ last'.item = items[1]
              /\ Range(items') = Range(items) \ {items[1]}
              /\ \A v \in Values :
                    ValCount(mem', items', v) =
                        ValCount(mem, items, v) - (IF mem[items[1]] = v THEN 1 ELSE 0)
        /\ (nInsert' = nInsert /\ nPopOk' = nPopOk) =>
              /\ mem' = mem
              /\ Range(items') = Range(items) /\ Len(items') = Len(items)

C33_Conservation == [](C33_ConservationState) /\ [][C33_ConservationStep]_vars

C33_Witness ==
    /\ IsIntHeap /\ ~panicked /\ last.op = "Pop" /\ last.err = "nil"
    /\ nInsert = 4 /\ nPopOk = 2 /\ Len(items) = 2
    /\ mem[last.item] = mem[items[1]] /\ mem[items[1]] > mem[items[2]]
    /\ last.item = 1 /\ drained = <<4, 1>>

\* C34: every call of Insert, Pop, UpHeap and DownHeap finishes after finitely
\* many steps (each iteration of the sift-up loop strictly decreases the index,
\* each iteration of the sift-down loop strictly increases it), no method
\* acquires the lock while the same call already holds it, and under fair
\* scheduling every call by every goroutine eventually returns.
C34_LoopStep ==
    \A t \in Threads :
        /\ (pc[t] \in {"Insert.upHeap", "UpHeap.upHeap"} /\ pc'[t] = pc[t]
               /\ loc'[t] # loc[t]) =>
              (0 <= loc'[t].index /\ loc'[t].index < loc[t].index)
        /\ (pc[t] \in {"Pop.downHeap", "DownHeap.downHeap"} /\ pc'[t] = pc[t]
               /\ loc'[t] # loc[t]) =>
              (loc'[t].index > loc[t].index /\ loc'[t].index < loc[t].heapSize)
        /\ (mu'.writer = t /\ mu.writer # t) => (mu.writer = 0 /\ mu.readers = {})
        /\ (t \in mu'.readers /\ t \notin mu.readers) => mu.writer = 0

C34_NoReacquire ==
    \A t \in Threads :
        (mu.writer = t \/ t \in mu.readers) => pc[t] \notin (LockPcs \cup RLockPcs)

C34_Termination ==
    /\ [](C34_NoReacquire)
    /\ [][C34_LoopStep]_vars
    /\ \A t \in Threads : (pc[t] # "idle") ~> (pc[t] = "idle")

\* the slots one iteration of upHeap's loop reads or writes
upHeapIterSlots(m, its, index) ==
    IF index = 0 THEN {}
    ELSE {Parent(index), index}

\* C35: in single-threaded use every index read or written by Insert, Pop,
\* Peek, UpHeap(i) and DownHeap(i) with 0 <= i < Size() lies in
\* [0, len(items)); the sift-up loop at index 0 reads no negative parent
\* index, and Pop on a one-element heap returns that element and leaves an
\* empty heap without sifting.
C35_InBounds ==
    /\ ~panicked
    /\ \A v \in Values : ~InsertItems(Append(mem, v), items, Len(mem) + 1).panic
    /\ ~PopResult(mem, items).panic
    /\ PeekResult(items).err = "nil" => InRange(items, 0)
    /\ \A i \in ValidIndices :
          /\ ~UpHeapItems(mem, items, i).panic
          /\ ~DownHeapItems(mem, items, i).panic
          /\ upHeapIterSlots(mem, items, i) \subseteq 0..(Len(items) - 1)
          /\ downHeapSlots(mem, items, i, Len(items)) \subseteq 0..(Len(items) - 1)
    /\ upHeapIterSlots(mem, items, 0) = {} /\ Parent(0) >= 0
    /\ Len(items) = 1 =>
          /\ PopResult(mem, items).err = "nil"
          /\ PopResult(mem, items).item = items[1]
          /\ PopResult(mem, items).items = <<>>
          /\ PopItems(mem, items) = Step(<<>>, 0, TRUE, FALSE)

C35_Witness ==
    /\ IsIntHeap /\ ~panicked /\ last.op = "Pop" /\ last.err = "nil"
    /\ items = <<>> /\ nInsert = 4 /\ nPopOk = 4
    /\ mem[last.item] < mem[drained[1]]

\* the goroutines that are in the UpHeap or DownHeap call of Update
InUpdateSift(t) == loc[t].op = "Update" /\ pc[t] \in
    {"UpHeap.check", "UpHeap.upHeap", "DownHeap.enter", "DownHeap.downHeap"}

\* C36: in any interleaving of Update with concurrent Pop and Insert calls,
\* the UpHeap or DownHeap call Update issues with the slot index captured by
\* its scan touches no slot outside the current backing sequence and does
\* not panic, also when Pops have shrunk the heap below that index.
C36_StaleIndexSafe ==
    /\ ~panicked
    /\ \A t \in Threads :
          /\ InUpdateSift(t) => loc[t].targetIdx >= 0 /\ mu.writer = t
          /\ (loc[t].op = "Update" /\ pc[t] = "UpHeap.upHeap") =>
                /\ InRange(items, loc[t].index)
                /\ upHeapIterSlots(mem, items, loc[t].index) \subseteq 0..(Len(items) - 1)
                /\ ~upHeapIter(mem, items, loc[t].index).panic
          /\ (loc[t].op = "Update" /\ pc[t] = "DownHeap.downHeap") =>
                /\ downHeapSlots(mem, items, loc[t].index, loc[t].heapSize)
                      \subseteq 0..(Len(items) - 1)
                /\ ~downHeapIter(mem, items, loc[t].index, loc[t].heapSize).panic

\* Update's sift starts at slot 1 after Pops have left fewer than two tasks
C36_Witness ==
    \E t \in Threads :
        /\ loc[t].op = "Update" /\ ~panicked
        /\ pc[t] \in {"UpHeap.unlock", "DownHeap.downHeap"}
        /\ loc[t].targetIdx = 1 /\ loc[t].index = 1
        /\ Len(items) <= 1 /\ nPopOk >= 1

\* the goroutines that are inside the body of Insert or Pop
InMutation(t) == pc[t] \in
    {"Insert.append", "Insert.upHeap", "Insert.unlock",
     "Pop.remove", "Pop.downHeap", "Pop.unlock"}

\* C37: GetItems and Peek run concurrently with Insert and Pop on a shared
\* Heap of ints: the sequence GetItems has copied satisfies the heap property
\* and is the backing sequence of a state in which no Insert or Pop is under
\* way, and what Peek has read is the root of such a state (or the empty
\* error when it holds nothing); no reader sees a half-finished sift.
C37_NoTornSnapshot ==
    /\ ~panicked
    /\ \A t \in Threads :
          /\ pc[t] = "GetItems.runlock" =>
                /\ \A u \in Threads : ~InMutation(u)
                /\ loc[t].copy = items
                /\ HeapPropertyOf(mem, loc[t].copy)
          /\ pc[t] = "Peek.runlock" =>
                /\ \A u \in Threads : ~InMutation(u)
                /\ HeapPropertyOf(mem, items)
                /\ IF items = <<>>
                   THEN loc[t].err = "ErrorIsEmpty" /\ loc[t].top = Nil
                   ELSE /\ loc[t].err = "nil" /\ loc[t].top = items[1]
                        /\ \A i \in 1..Len(items) : Cmp(mem, loc[t].top, items[i]) >= 0

\* GetItems has copied two different elements while an Insert or a Pop of
\* the other goroutine waits for the lock
C37_Witness ==
    \E t \in Threads, u \in Threads :
        /\ pc[t] = "GetItems.runlock" /\ Len(loc[t].copy) = 2
        /\ mem[loc[t].copy[1]] # mem[loc[t].copy[2]]
        /\ pc[u] \in {"Insert.lock", "Pop.lock"}

\* C38: for any sequence of Enqueue and Dequeue calls on a Queue, enqueues of
\* a nil pointer included, IsEmpty is true exactly when as many Enqueues as
\* Dequeues have succeeded, and IsFull exactly when their difference is the
\* capacity.
C38_EmptinessMatchesCount ==
    /\ QueueIsEmpty(queue) <=> Len(hist.in) = Len(hist.out)
    /\ QueueIsFull(queue) <=> Len(hist.in) - Len(hist.out) = queue.size

====
